---- MODULE Spec2Model ----
(***************************************************************************)
(* Model of the project store of 0aub/ppp                                  *)
(* (src/ui/src/stores/projectStore.ts): the persisted collection of        *)
(* projects with their weekly updates, the selected date, and the store's  *)
(* mutating operations and queries (Spec); of the views the pages and the  *)
(* presentation derive from the store (ReportsSpec); of the date and list  *)
(* utilities (UtilsSpec); of the slideshow (PresentationSpec); and of the  *)
(* reordering by drag and drop on the Projects page (ProjectsPageSpec).    *)
(*                                                                         *)
(* Representation.                                                         *)
(*  - A JavaScript object is a function from field names to values, so a   *)
(*    Partial<...> is a record with fewer fields and the object spread     *)
(*    {...a, ...b} is Spread(a, b).  An optional field that is absent is   *)
(*    not in the DOMAIN of the record.                                     *)
(*  - A calendar date (the ISO string YYYY-MM-DD) is the number of the     *)
(*    day; day numbers divisible by 7 are Mondays.  The conversion of a    *)
(*    local Date to its ISO string goes through UTC and is modelled by the *)
(*    shift of the day it causes (toISODate).                              *)
(*  - A timestamp (Date.now(), new Date().toISOString()) is a reading of   *)
(*    the clock `now`, in milliseconds.  A call reads the clock once per   *)
(*    Date.now() / new Date() it evaluates, and the clock may advance      *)
(*    between two reads of the same call.                                  *)
(*  - An array the views work on is its items and the place that holds    *)
(*    it (ArrayAt): filter and the spread allocate a new array, sort       *)
(*    orders its receiver where it is held.                                *)
(*  - Free text of the demo data (Arabic names, descriptions, list items)  *)
(*    is replaced by ASCII tokens; no operation of the store looks into it.*)
(***************************************************************************)
EXTENDS Integers, Sequences, FiniteSets, TLC

VARIABLES
    projects,      \* ProjectStore.projects: sequence of Project objects
    currentWeek,   \* ProjectStore.currentWeek: the selected date
    now,           \* the wall clock read by Date.now() / new Date()
    lastOp,        \* history: the last store call and its arguments
    nops,          \* history: number of store calls made so far
    before,        \* history: the store state the last call started from
    lastWrite,     \* history: per position of `projects`, the id of the
                   \* update most recently added or edited ("" if none)
    presentation,  \* PresentationMode: the isOpen prop, the component's state,
                   \* the setTimeout callbacks not yet run and whether the
                   \* effect of a closing render has yet to run
    calledWhileOpen  \* history: a store call has been made while the
                     \* presentation was open

vars ==
    <<projects, currentWeek, now, lastOp, nops, before, lastWrite, presentation,
      calledWhileOpen>>

----------------------------------------------------------------------------
(* Bounds of the model *)

MaxOps == 2        \* store calls per behaviour
MaxTicks == 1      \* milliseconds the clock may advance in a behaviour
NumRandom == 2     \* distinct outcomes of Math.random()

Clock0 == 100      \* clock reading at construction (fixed width, as the
                   \* base-36 timestamp is between 1972 and 2059)

----------------------------------------------------------------------------
(* Generic helpers: Array.prototype.map / filter / some and object spread *)

\* {...a, ...b}
Spread(a, b) ==
    [k \in (DOMAIN a) \cup (DOMAIN b) |-> IF k \in DOMAIN b THEN b[k] ELSE a[k]]

Has(obj, field) == field \in DOMAIN obj

Last(s) == s[Len(s)]

RECURSIVE FilterSeq(_, _)
\* s.filter(x => keep[x]) with keep given as the set of kept positions
FilterSeq(s, keep) ==
    IF s = <<>> THEN <<>>
    ELSE LET n == Len(s)
             front == FilterSeq(SubSeq(s, 1, n - 1), keep)
         IN IF n \in keep THEN Append(front, s[n]) ELSE front

----------------------------------------------------------------------------
(* Dates *)

\* Environments the page is loaded in: the local day, the shift of the
\* calendar day when local midnight is printed in UTC (-1 east of Greenwich,
\* 0 otherwise) and the shift when the current instant is printed in UTC.
\* The store is created on a Sunday in a zone east of Greenwich (UTC+3), in
\* which getMonday takes its Sunday branch and the printed day is shifted.
Envs ==
    { [today |-> 2806, midnightShift |-> -1, nowShift |-> 0] }

\* Date.prototype.getDay(): 0 = Sunday ... 6 = Saturday
getDay(d) == (d + 1) % 7

\* d.toISOString().split('T')[0] for a local Date on day d
toISODate(d, shift) == d + shift

\* getCurrentDay()
getCurrentDay(e) == toISODate(e.today, e.midnightShift)

\* createDemoProjects.getMonday
getMonday(e, date) ==
    LET day == getDay(date)
        diff == date - day + (IF day = 0 THEN -6 ELSE 1)
    IN toISODate(diff, e.midnightShift)

\* createDemoProjects.getWeeksAgo
getWeeksAgo(e, weeks) == getMonday(e, e.today - weeks * 7)

\* createDemoProjects.formatDate
formatDate(e, weeksAgo) == toISODate(e.today - weeksAgo * 7, e.nowShift)

----------------------------------------------------------------------------
(* Identifiers *)

\* generateId(): Date.now().toString(36) + Math.random().toString(36).substr(2)
generateId(t, r) == ToString(t) \o ToString(r)

Randoms == 0 .. (NumRandom - 1)

----------------------------------------------------------------------------
(* Demo data *)

Min(a, b) == IF a < b THEN a ELSE b
Max(a, b) == IF a > b THEN a ELSE b

\* Numbers of the demo data generator are IEEE 754 doubles: a double is
\* [neg, bits, exp], the value (-1)^neg * bits * 2^exp, with bits a binary
\* numeral of MantissaBits digits, most significant first and starting
\* with 1; zero has no digits.  Results are rounded to nearest, ties to even.
\* Sums and products are computed on numerals in base 2^LimbBits.
MantissaBits == 53

LimbBits == 12

LimbBase == 2 ^ LimbBits

\* places in base LimbBase of a quotient computed before it is rounded
\* (72 binary places, enough for quotients of integers below 2^10)
FractionLimbs == 6

Zero == [neg |-> FALSE, bits |-> <<>>, exp |-> 0]

Zeros(k) == [j \in 1 .. k |-> 0]

Front(digits) == SubSeq(digits, 1, Len(digits) - 1)

RECURSIVE BitsOf(_)
\* the binary numeral of a non-negative integer
BitsOf(n) == IF n = 0 THEN <<>> ELSE Append(BitsOf(n \div 2), n % 2)

RECURSIVE IntOf(_)
\* the integer of a binary numeral of at most 30 digits
IntOf(digits) == IF digits = <<>> THEN 0 ELSE 2 * IntOf(Front(digits)) + Last(digits)

\* the numeral without its leading zeros
StripZeros(digits) ==
    LET ones == {j \in DOMAIN digits : digits[j] = 1}
    IN IF ones = {} THEN <<>>
       ELSE SubSeq(digits, CHOOSE j \in ones : \A m \in ones : j <= m, Len(digits))

\* the binary numeral as a numeral in base LimbBase
ToLimbs(digits) ==
    LET count == (Len(digits) + LimbBits - 1) \div LimbBits
        padded == Zeros(count * LimbBits - Len(digits)) \o digits
    IN [i \in 1 .. count |-> IntOf(SubSeq(padded, (i - 1) * LimbBits + 1, i * LimbBits))]

\* the numeral in base LimbBase as a binary numeral
FromLimbs(limbs) ==
    [j \in 1 .. (Len(limbs) * LimbBits) |->
        (limbs[((j - 1) \div LimbBits) + 1] \div (2 ^ (LimbBits - 1 - ((j - 1) % LimbBits)))) % 2]

\* digits + 1
Increment(digits) ==
    LET zeros == {j \in DOMAIN digits : digits[j] = 0}
    IN IF zeros = {} THEN << 1 >> \o Zeros(Len(digits))
       ELSE LET z == CHOOSE j \in zeros : \A m \in zeros : m <= j
            IN [j \in DOMAIN digits |-> IF j < z THEN digits[j] ELSE IF j = z THEN 1 ELSE 0]

\* the double nearest to (-1)^neg * digits * 2^exp, plus a rest below the
\* last digit when `inexact`
RoundToDouble(neg, digits, exp, inexact) ==
    LET d == StripZeros(digits)
        n == Len(d)
    IN IF n = 0 THEN Zero
       ELSE IF n <= MantissaBits
       THEN [neg |-> neg, bits |-> d \o Zeros(MantissaBits - n), exp |-> exp - (MantissaBits - n)]
       ELSE LET kept == SubSeq(d, 1, MantissaBits)
                guard == d[MantissaBits + 1]
                rest == inexact \/ \E j \in (MantissaBits + 2) .. n : d[j] = 1
                up == guard = 1 /\ (rest \/ Last(kept) = 1)
                m == IF up THEN Increment(kept) ELSE kept
            IN IF Len(m) > MantissaBits
               THEN [neg |-> neg, bits |-> Front(m), exp |-> exp + (n - MantissaBits) + 1]
               ELSE [neg |-> neg, bits |-> m, exp |-> exp + (n - MantissaBits)]

RECURSIVE LongDivision(_, _, _)
\* the first k places in base LimbBase of r / n (0 <= r < n), and the
\* remainder left after them
LongDivision(r, n, k) ==
    IF k = 0 THEN [digits |-> <<>>, rest |-> r]
    ELSE LET d == LongDivision((LimbBase * r) % n, n, k - 1)
         IN [digits |-> << (LimbBase * r) \div n >> \o d.digits, rest |-> d.rest]

\* a / b for integers a and b > 0
DivideIntegers(a, b) ==
    LET m == IF a < 0 THEN 0 - a ELSE a
        fraction == LongDivision(m % b, b, FractionLimbs)
    IN RoundToDouble(a < 0,
                     BitsOf(m \div b) \o FromLimbs(fraction.digits),
                     0 - FractionLimbs * LimbBits,
                     fraction.rest # 0)

RECURSIVE TimesSmall(_, _, _)
\* limbs * w + carry, in base LimbBase
TimesSmall(limbs, w, carry) ==
    IF limbs = <<>> THEN << carry >>
    ELSE LET v == Last(limbs) * w + carry
         IN Append(TimesSmall(Front(limbs), w, v \div LimbBase), v % LimbBase)

\* x * w for a double x and an integer w with 0 <= w < 2^18
MultiplyByInteger(x, w) ==
    IF w = 0 \/ x.bits = <<>> THEN Zero
    ELSE RoundToDouble(x.neg, FromLimbs(TimesSmall(ToLimbs(x.bits), w, 0)), x.exp, FALSE)

RECURSIVE AddDigits(_, _, _)
\* a + b + carry for numerals in base LimbBase of equal length
AddDigits(a, b, carry) ==
    IF a = <<>> THEN << carry >>
    ELSE LET v == Last(a) + Last(b) + carry
         IN Append(AddDigits(Front(a), Front(b), v \div LimbBase), v % LimbBase)

RECURSIVE SubtractDigits(_, _, _)
\* a - b - borrow for numerals in base LimbBase of equal length, a >= b
SubtractDigits(a, b, borrow) ==
    IF a = <<>> THEN <<>>
    ELSE LET v == Last(a) - Last(b) - borrow
         IN Append(SubtractDigits(Front(a), Front(b), IF v < 0 THEN 1 ELSE 0),
                   (v + LimbBase) % LimbBase)

\* a < b for numerals of equal length
LessDigits(a, b) ==
    \E j \in DOMAIN a : a[j] < b[j] /\ \A i \in 1 .. (j - 1) : a[i] = b[i]

\* n + x for an integer n >= 0 and a double x of magnitude below 2^52
AddInteger(n, x) ==
    IF x.bits = <<>> THEN RoundToDouble(FALSE, BitsOf(n), 0, FALSE)
    ELSE LET scaled == BitsOf(n) \o Zeros(0 - x.exp)
             len == IF Len(scaled) > Len(x.bits) THEN Len(scaled) ELSE Len(x.bits)
             a == ToLimbs(Zeros(len - Len(scaled)) \o scaled)
             b == ToLimbs(Zeros(len - Len(x.bits)) \o x.bits)
         IN IF ~x.neg THEN RoundToDouble(FALSE, FromLimbs(AddDigits(a, b, 0)), x.exp, FALSE)
            ELSE IF LessDigits(a, b)
            THEN RoundToDouble(TRUE, FromLimbs(SubtractDigits(b, a, 0)), x.exp, FALSE)
            ELSE RoundToDouble(FALSE, FromLimbs(SubtractDigits(a, b, 0)), x.exp, FALSE)

\* Math.round(x) of a double of magnitude below 2^52: the nearest integer,
\* a tie going up
MathRoundDouble(x) ==
    IF x.bits = <<>> THEN 0
    ELSE LET n == Len(x.bits)
             k == 0 - x.exp
             whole == IF n > k THEN IntOf(SubSeq(x.bits, 1, n - k)) ELSE 0
             half == IF n >= k THEN x.bits[n - k + 1] ELSE 0
             below == \E j \in (n - k + 2) .. n : j >= 1 /\ x.bits[j] = 1
         IN IF ~x.neg THEN whole + half
            ELSE IF half = 1 /\ below THEN 0 - (whole + 1)
            ELSE 0 - whole

\* Math.round(num / den) for integers num and den > 0
MathRound(num, den) == MathRoundDouble(DivideIntegers(num, den))

\* Math.min(100, Math.max(0, Math.round(startProgress + progressPerWeek *
\* weekIndex))) with progressPerWeek = (endProgress - startProgress) /
\* totalWeeks
weekProgress(startProgress, endProgress, totalWeeks, weekIndex) ==
    LET progressPerWeek == DivideIntegers(endProgress - startProgress, totalWeeks)
    IN Min(100, Max(0, MathRoundDouble(
           AddInteger(startProgress, MultiplyByInteger(progressPerWeek, weekIndex)))))

\* the text items of one entry of an accomplishments / challenges list
Items(prefix, entry, n) ==
    [j \in 1 .. n |-> prefix \o ToString(entry) \o "." \o ToString(j)]

\* createDemoProjects.generateUpdates; the two text lists are given by the
\* number of items of each of their entries
generateUpdates(e, t, startWeeksAgo, startProgress, endProgress, projectId, accomplishmentsList, challengesList) ==
    LET totalWeeks == startWeeksAgo + 1
    IN [k \in 1 .. totalWeeks |->
          LET weekIndex == k - 1
              i == startWeeksAgo - weekIndex
              progress == weekProgress(startProgress, endProgress, totalWeeks, weekIndex)
              a == weekIndex % Len(accomplishmentsList)
              c == weekIndex % Len(challengesList)
          IN [ id |-> projectId \o "-update-" \o ToString(weekIndex),
               weekDate |-> getWeeksAgo(e, i),
               accomplishments |->
                   Items(projectId \o "-acc-", a, accomplishmentsList[a + 1]),
               nextSteps |-> <<"next-1", "next-2">>,
               progress |-> progress,
               estimatedCompletion |-> formatDate(e, -12),
               challenges |->
                   Items(projectId \o "-ch-", c, challengesList[c + 1]),
               supportNeeded |-> IF weekIndex % 3 = 0 THEN "support" ELSE "",
               notes |-> "week-" \o ToString(weekIndex + 1),
               createdAt |-> t ] ]

DemoProject(e, t, id, status, category, startWeeks, endWeeks, currentProgress, owner, updates) ==
    [ id |-> id,
      name |-> id \o "-name",
      description |-> id \o "-description",
      status |-> status,
      category |-> category,
      startDate |-> formatDate(e, startWeeks * 7),
      targetEndDate |-> formatDate(e, endWeeks * 7),
      currentProgress |-> currentProgress,
      owner |-> owner,
      createdAt |-> t,
      updatedAt |-> t,
      weeklyUpdates |-> updates ]

\* createDemoProjects()
createDemoProjects(e, t) ==
    << DemoProject(e, t, "demo-project-1", "on_track", "project", 26, -12, 85,
           "owner-1",
           generateUpdates(e, t, 25, 5, 85, "p1",
               <<2, 2, 2, 2, 2, 2, 2, 2>>, <<1, 0, 1, 0, 1, 0, 0, 1>>)),
       DemoProject(e, t, "demo-project-2", "at_risk", "project", 17, -4, 45,
           "owner-2",
           generateUpdates(e, t, 16, 0, 45, "p2",
               <<2, 2, 1, 1, 1, 1, 1, 1>>, <<1, 1, 0, 1, 1, 0, 1, 0>>)),
       DemoProject(e, t, "demo-project-3", "on_track", "project", 22, -2, 92,
           "owner-3",
           generateUpdates(e, t, 21, 0, 92, "p3",
               <<2, 2, 1, 1, 1, 1, 1, 1>>, <<0, 1, 0, 0, 1, 0, 0, 1>>)),
       DemoProject(e, t, "demo-index-1", "on_track", "index", 26, -52, 78,
           "owner-4",
           generateUpdates(e, t, 25, 45, 78, "idx1",
               <<2, 2, 1, 1, 1, 1, 1, 1>>, <<0, 1, 0, 0, 0, 1, 0, 0>>)),
       DemoProject(e, t, "demo-project-4", "on_track", "project", 9, -16, 28,
           "owner-5",
           generateUpdates(e, t, 8, 0, 28, "p4",
               <<2, 2, 1, 1, 1, 1>>, <<0, 0, 1, 0, 0, 0>>)),
       DemoProject(e, t, "demo-idea-1", "on_hold", "idea", 12, -26, 15,
           "owner-6",
           generateUpdates(e, t, 11, 5, 15, "idea1",
               <<1, 1, 1, 1, 1, 1>>, <<1, 0, 1, 0, 1, 0>>)),
       DemoProject(e, t, "demo-project-5", "delayed", "project", 13, -2, 35,
           "owner-7",
           generateUpdates(e, t, 12, 0, 35, "p5",
               <<2, 1, 1, 1, 1, 1>>, <<1, 1, 1, 1, 1, 1>>)) >>

\* the update pushed last by generateUpdates is the one added most recently
LastPushed(p) ==
    IF p.weeklyUpdates = <<>> THEN ""
    ELSE p.weeklyUpdates[Len(p.weeklyUpdates)].id

\* PresentationMode as mounted by Layout: useState(false) of
\* showPresentation, useState(0), useState('next'), useState(false); no
\* callback of setTimeout waits and no effect of a closing render is pending
Mounted ==
    [ isOpen |-> FALSE, currentSlide |-> 0, slideDirection |-> "next",
      isAnimating |-> FALSE, timers |-> {}, resetPending |-> FALSE ]

Init ==
    \E e \in Envs :
        /\ projects = createDemoProjects(e, Clock0)
        /\ currentWeek = getCurrentDay(e)
        /\ now = Clock0
        /\ lastOp = [op |-> "init"]
        /\ nops = 0
        /\ before = [ projects |-> createDemoProjects(e, Clock0),
                      currentWeek |-> getCurrentDay(e) ]
        /\ lastWrite = [i \in 1 .. 7 |-> LastPushed(createDemoProjects(e, Clock0)[i])]
        /\ presentation = Mounted
        /\ calledWhileOpen = FALSE

----------------------------------------------------------------------------
(* Store operations (src/ui/src/stores/projectStore.ts, lines 230-336).    *)
(* Each action is one call of the store: the state update passed to set(), *)
(* with the history variables recording the call.                          *)

Called(call) ==
    /\ nops < MaxOps
    /\ nops' = nops + 1
    /\ lastOp' = Spread(call, [at |-> now])
    /\ before' = [projects |-> projects, currentWeek |-> currentWeek]
    /\ presentation' = presentation
    /\ calledWhileOpen' = (calledWhileOpen \/ presentation.isOpen)

\* p => p.id === id, as the set of matching positions
Matching(ps, id) == {i \in DOMAIN ps : ps[i].id = id}

\* reads are the readings of the n reads of the clock a call makes (each
\* Date.now() and new Date() it evaluates), in the order of the reads: the
\* clock does not go back
IsClockReads(reads, n) ==
    /\ DOMAIN reads = 1 .. n
    /\ n > 0 => now <= reads[1]
    /\ \A j \in 1 .. (n - 1) : reads[j] <= reads[j + 1]

\* the readings a call is made with: the first is the clock at the call (it
\* advances before the call by Tick)
ClockReads(n) ==
    { reads \in [1 .. n -> now .. (Clock0 + MaxTicks)] :
          /\ IsClockReads(reads, n)
          /\ n > 0 => reads[1] = now }

\* the clock when the call returns
ClockAfter(reads) == IF reads = <<>> THEN now ELSE Last(reads)

\* the number of callbacks of ps.map(...) that have found p.id === id when
\* the callback of position i has
MatchesUpTo(ps, id, i) == Cardinality({m \in Matching(ps, id) : m <= i})

\* addProject(projectData); r is the outcome of Math.random(), reads the
\* readings of the clock: by new Date() (line 231), then by generateId (line 14)
addProject(projectData, r, reads) ==
    LET newProject ==
            Spread(projectData,
                   [ id |-> generateId(reads[2], r),
                     weeklyUpdates |-> <<>>,
                     createdAt |-> reads[1],
                     updatedAt |-> reads[1] ])
    IN /\ IsClockReads(reads, 2)
       /\ Called([op |-> "addProject", projectData |-> projectData])
       /\ projects' = Append(projects, newProject)
       /\ lastWrite' = Append(lastWrite, "")
       /\ now' = ClockAfter(reads)
       /\ UNCHANGED currentWeek

\* updateProject that creates the project when no project has the id
updateProject_Upsert(id, updates, reads) ==
    /\ IsClockReads(reads, Cardinality(Matching(projects, id)))
    /\ Called([op |-> "updateProject", id |-> id, updates |-> updates])
    /\ projects' =
           IF Matching(projects, id) = {}
           THEN Append(projects, Spread(updates, [updatedAt |-> now]))
           ELSE [i \in DOMAIN projects |->
                    LET p == projects[i]
                    IN IF p.id = id
                       THEN Spread(Spread(p, updates),
                                [updatedAt |-> reads[MatchesUpTo(projects, id, i)]])
                       ELSE p]
    /\ lastWrite' =
           IF Matching(projects, id) = {} THEN Append(lastWrite, "") ELSE lastWrite
    /\ now' = ClockAfter(reads)
    /\ UNCHANGED currentWeek

\* updateProject(id, updates)
\* reads: the readings of the clock by the callback of each matching
\* project (line 245)
updateProject(id, updates, reads) ==
    /\ IsClockReads(reads, Cardinality(Matching(projects, id)))
    /\ Called([op |-> "updateProject", id |-> id, updates |-> updates])
    /\ projects' =
           [i \in DOMAIN projects |->
               LET p == projects[i]
               IN IF p.id = id
                  THEN Spread(Spread(p, updates),
                           [updatedAt |-> reads[MatchesUpTo(projects, id, i)]])
                  ELSE p]
    /\ now' = ClockAfter(reads)
    /\ UNCHANGED <<currentWeek, lastWrite>>

\* deleteProject with the filter inverted: p.id === id
deleteProject_Inverted(id) ==
    LET keep == {i \in DOMAIN projects : projects[i].id = id}
    IN /\ Called([op |-> "deleteProject", id |-> id])
       /\ projects' = FilterSeq(projects, keep)
       /\ lastWrite' = FilterSeq(lastWrite, keep)
       /\ UNCHANGED <<currentWeek, now>>

\* deleteProject(id)
deleteProject(id) ==
    LET keep == {i \in DOMAIN projects : projects[i].id # id}
    IN /\ Called([op |-> "deleteProject", id |-> id])
       /\ projects' = FilterSeq(projects, keep)
       /\ lastWrite' = FilterSeq(lastWrite, keep)
       /\ UNCHANGED <<currentWeek, now>>

\* addWeeklyUpdate(projectId, updateData); r is the outcome of Math.random(),
\* reads the readings of the clock: by generateId (line 14), by new Date()
\* for createdAt (line 260), then by the callback of each matching project
\* (line 269)
addWeeklyUpdate(projectId, updateData, r, reads) ==
    LET newUpdate ==
            Spread(updateData,
                   [id |-> generateId(reads[1], r), createdAt |-> reads[2]])
    IN /\ IsClockReads(reads, 2 + Cardinality(Matching(projects, projectId)))
       /\ Called([op |-> "addWeeklyUpdate", projectId |-> projectId,
                  updateData |-> updateData])
       /\ projects' =
              [i \in DOMAIN projects |->
                  LET p == projects[i]
                  IN IF p.id = projectId
                     THEN Spread(p,
                              [ weeklyUpdates |-> Append(p.weeklyUpdates, newUpdate),
                                currentProgress |-> updateData.progress,
                                updatedAt |->
                                    reads[2 + MatchesUpTo(projects, projectId, i)] ])
                     ELSE p]
       /\ lastWrite' =
              [i \in DOMAIN lastWrite |->
                  IF projects[i].id = projectId THEN newUpdate.id ELSE lastWrite[i]]
       /\ now' = ClockAfter(reads)
       /\ UNCHANGED currentWeek

\* changes.progress || p.currentProgress: a progress of 0 is falsy
NullishProgress_Falsy(changes, p) ==
    IF Has(changes, "progress") /\ changes.progress # 0
    THEN changes.progress ELSE p.currentProgress

\* changes.progress ?? p.currentProgress
NullishProgress(changes, p) ==
    IF Has(changes, "progress") THEN changes.progress ELSE p.currentProgress

\* updateWeeklyUpdate(projectId, updateId, changes)
\* reads: the readings of the clock by the callback of each matching
\* project (line 286)
updateWeeklyUpdate(projectId, updateId, changes, reads) ==
    /\ IsClockReads(reads, Cardinality(Matching(projects, projectId)))
    /\ Called([op |-> "updateWeeklyUpdate", projectId |-> projectId,
               updateId |-> updateId, changes |-> changes])
    /\ projects' =
           [i \in DOMAIN projects |->
               LET p == projects[i]
               IN IF p.id = projectId
                  THEN Spread(p,
                           [ weeklyUpdates |->
                                 [k \in DOMAIN p.weeklyUpdates |->
                                     LET u == p.weeklyUpdates[k]
                                     IN IF u.id = updateId
                                        THEN Spread(u, changes) ELSE u],
                             currentProgress |-> NullishProgress(changes, p),
                             updatedAt |->
                                 reads[MatchesUpTo(projects, projectId, i)] ])
                  ELSE p]
    /\ lastWrite' =
           [i \in DOMAIN lastWrite |->
               IF /\ projects[i].id = projectId
                  /\ Matching(projects[i].weeklyUpdates, updateId) # {}
               THEN Spread([id |-> updateId], changes).id
               ELSE lastWrite[i]]
    /\ now' = ClockAfter(reads)
    /\ UNCHANGED currentWeek

\* deleteWeeklyUpdate that recomputes currentProgress from the newest update
\* left in the project
deleteWeeklyUpdate_Recompute(projectId, updateId, reads) ==
    /\ IsClockReads(reads, Cardinality(Matching(projects, projectId)))
    /\ Called([op |-> "deleteWeeklyUpdate", projectId |-> projectId,
               updateId |-> updateId])
    /\ projects' =
           [i \in DOMAIN projects |->
               LET p == projects[i]
                   left == FilterSeq(p.weeklyUpdates,
                               {k \in DOMAIN p.weeklyUpdates :
                                   p.weeklyUpdates[k].id # updateId})
               IN IF p.id = projectId
                  THEN Spread(p,
                           [ weeklyUpdates |-> left,
                             currentProgress |->
                                 IF left = <<>> THEN p.currentProgress
                                 ELSE left[Len(left)].progress,
                             updatedAt |->
                                 reads[MatchesUpTo(projects, projectId, i)] ])
                  ELSE p]
    /\ now' = ClockAfter(reads)
    /\ UNCHANGED <<currentWeek, lastWrite>>

\* deleteWeeklyUpdate(projectId, updateId)
\* reads: the readings of the clock by the callback of each matching
\* project (line 300)
deleteWeeklyUpdate(projectId, updateId, reads) ==
    /\ IsClockReads(reads, Cardinality(Matching(projects, projectId)))
    /\ Called([op |-> "deleteWeeklyUpdate", projectId |-> projectId,
               updateId |-> updateId])
    /\ projects' =
           [i \in DOMAIN projects |->
               LET p == projects[i]
               IN IF p.id = projectId
                  THEN Spread(p,
                           [ weeklyUpdates |->
                                 FilterSeq(p.weeklyUpdates,
                                     {k \in DOMAIN p.weeklyUpdates :
                                         p.weeklyUpdates[k].id # updateId}),
                             updatedAt |->
                                 reads[MatchesUpTo(projects, projectId, i)] ])
                  ELSE p]
    /\ now' = ClockAfter(reads)
    /\ UNCHANGED <<currentWeek, lastWrite>>

\* setCurrentWeek(week), were the state replaced instead of merged
\* (set({ currentWeek: week }, true)): the projects are gone
setCurrentWeek_Replace(week) ==
    /\ Called([op |-> "setCurrentWeek", week |-> week])
    /\ currentWeek' = week
    /\ projects' = <<>>
    /\ lastWrite' = <<>>
    /\ UNCHANGED now

\* setCurrentWeek(week)
setCurrentWeek(week) ==
    /\ Called([op |-> "setCurrentWeek", week |-> week])
    /\ currentWeek' = week
    /\ UNCHANGED <<projects, now, lastWrite>>

\* !p.isActiveInPresentation would treat an absent flag as false
EffectiveFlag_AbsentFalse(p) ==
    IF Has(p, "isActiveInPresentation") THEN p.isActiveInPresentation ELSE FALSE

\* p.isActiveInPresentation ?? true
EffectiveFlag(p) ==
    IF Has(p, "isActiveInPresentation") THEN p.isActiveInPresentation ELSE TRUE

\* toggleProjectInPresentation(id)
toggleProjectInPresentation(id) ==
    /\ Called([op |-> "toggleProjectInPresentation", id |-> id])
    /\ projects' =
           [i \in DOMAIN projects |->
               LET p == projects[i]
               IN IF p.id = id
                  THEN Spread(p, [isActiveInPresentation |-> ~EffectiveFlag(p)])
                  ELSE p]
    /\ UNCHANGED <<currentWeek, now, lastWrite>>

\* reorderProjects stamping positions counted from 1
reorderProjects_OneBased(newProjectsOrder) ==
    /\ Called([op |-> "reorderProjects", newProjectsOrder |-> newProjectsOrder])
    /\ projects' =
           [index \in DOMAIN newProjectsOrder |->
               Spread(newProjectsOrder[index], [displayOrder |-> index])]
    /\ lastWrite' =
           [index \in DOMAIN newProjectsOrder |->
               IF \E i \in DOMAIN projects : projects[i] = newProjectsOrder[index]
               THEN lastWrite[CHOOSE i \in DOMAIN projects :
                                  projects[i] = newProjectsOrder[index]]
               ELSE LastPushed(newProjectsOrder[index])]
    /\ UNCHANGED <<currentWeek, now>>

\* reorderProjects(newProjectsOrder)
reorderProjects(newProjectsOrder) ==
    /\ Called([op |-> "reorderProjects", newProjectsOrder |-> newProjectsOrder])
    /\ projects' =
           [index \in DOMAIN newProjectsOrder |->
               Spread(newProjectsOrder[index], [displayOrder |-> index - 1])]
    /\ lastWrite' =
           [index \in DOMAIN newProjectsOrder |->
               IF \E i \in DOMAIN projects : projects[i] = newProjectsOrder[index]
               THEN lastWrite[CHOOSE i \in DOMAIN projects :
                                  projects[i] = newProjectsOrder[index]]
               ELSE LastPushed(newProjectsOrder[index])]
    /\ UNCHANGED <<currentWeek, now>>

\* getProjectsForWeek(week)
getProjectsForWeek(week) ==
    FilterSeq(projects,
        {i \in DOMAIN projects :
            \E k \in DOMAIN projects[i].weeklyUpdates :
                projects[i].weeklyUpdates[k].weekDate = week})

\* getProjectsWithUpdatesThisWeek() filtering on any update at all
getProjectsWithUpdatesThisWeek_AnyWeek ==
    FilterSeq(projects,
        {i \in DOMAIN projects : projects[i].weeklyUpdates # <<>>})

\* getProjectsWithUpdatesThisWeek()
getProjectsWithUpdatesThisWeek ==
    LET week == currentWeek
    IN FilterSeq(projects,
           {i \in DOMAIN projects :
               \E k \in DOMAIN projects[i].weeklyUpdates :
                   projects[i].weeklyUpdates[k].weekDate = week})

\* a caller reads getProjectsForWeek(week): the store has no set() on this path
readProjectsForWeek(week) ==
    /\ Called([op |-> "getProjectsForWeek", week |-> week,
               result |-> getProjectsForWeek(week)])
    /\ UNCHANGED <<projects, currentWeek, now, lastWrite>>

\* a caller reads getProjectsWithUpdatesThisWeek()
readProjectsWithUpdatesThisWeek ==
    /\ Called([op |-> "getProjectsWithUpdatesThisWeek",
               result |-> getProjectsWithUpdatesThisWeek])
    /\ UNCHANGED <<projects, currentWeek, now, lastWrite>>

\* the clock advances by a millisecond between two calls
Tick ==
    /\ nops < MaxOps
    /\ now < Clock0 + MaxTicks
    /\ now' = now + 1
    /\ UNCHANGED <<projects, currentWeek, lastOp, nops, before, lastWrite, presentation,
                 calledWhileOpen>>

----------------------------------------------------------------------------
(* Inputs of the calls *)

MissingId == "missing"

\* project ids passed to deleteProject and toggleProjectInPresentation: the
\* first project of the collection, the id the previous call was made with,
\* and an id that is not in the collection
TargetIds ==
    (IF projects = <<>> THEN {} ELSE {projects[1].id})
    \cup (IF Has(lastOp, "id") THEN {lastOp.id} ELSE {})
    \cup {MissingId}

\* the project form of Projects.tsx (formData)
ProjectDataInputs ==
    { [ name |-> "X", description |-> "", status |-> "on_track",
        category |-> "project", startDate |-> 2800, targetEndDate |-> 2900,
        currentProgress |-> 30, owner |-> "" ] }

\* updateProject(id, updates) calls: the edit form and a change of the id
\* field on the first project, the status of the progress dialog on an
\* unknown project
UpdateProjectCalls ==
    (IF projects = <<>> THEN {}
     ELSE {projects[1].id}
              \X { [ name |-> "Z", description |-> "", status |-> "at_risk",
                     category |-> "project", startDate |-> 2800,
                     targetEndDate |-> 2900, currentProgress |-> 50,
                     owner |-> "owner-2" ],
                   [id |-> "demo-project-2"] })
    \cup {<<MissingId, [status |-> "completed"]>>}

\* Omit<WeeklyUpdate, 'id' | 'createdAt'>
UpdateDataInputs ==
    { [ weekDate |-> currentWeek, accomplishments |-> <<"did X">>,
        nextSteps |-> <<"n">>, challenges |-> <<>>, progress |-> 40,
        estimatedCompletion |-> 2900, supportNeeded |-> "", notes |-> "" ] }

\* addWeeklyUpdate calls, as the project id and the outcome of Math.random():
\* on the first project with every outcome, and on an unknown project, where
\* the id generated from the outcome is dropped with the update
AddCalls ==
    (IF projects = <<>> THEN {} ELSE {projects[1].id} \X Randoms)
    \cup {<<MissingId, 0>>}

\* updateWeeklyUpdate(projectId, updateId, changes) calls: on the first
\* project, a progress of 0 for its oldest update, a note for its newest, a
\* change of id and createdAt, and an update id it does not have; and a call
\* for an unknown project
UpdateWeeklyUpdateCalls ==
    LET zero == [progress |-> 0, weekDate |-> currentWeek]
        p == projects[1]
    IN (IF projects = <<>> THEN {}
        ELSE { <<p.id, MissingId, zero>> }
             \cup (IF p.weeklyUpdates = <<>> THEN {}
                   ELSE { <<p.id, p.weeklyUpdates[1].id, zero>>,
                          <<p.id, LastPushed(p), [notes |-> "edited"]>>,
                          <<p.id, p.weeklyUpdates[1].id,
                            [id |-> "renamed", createdAt |-> 0]>> }))
       \cup { <<MissingId, MissingId, zero>> }

\* deleteWeeklyUpdate(projectId, updateId) calls: the newest and the oldest
\* update of the first project, an update id it does not have, and an
\* unknown project
DeleteWeeklyUpdateCalls ==
    LET p == projects[1]
    IN (IF projects = <<>> THEN {}
        ELSE { <<p.id, MissingId>> }
             \cup (IF p.weeklyUpdates = <<>> THEN {}
                   ELSE { <<p.id, LastPushed(p)>>,
                          <<p.id, p.weeklyUpdates[1].id>> }))
       \cup { <<MissingId, MissingId>> }

Reverse(s) == [i \in DOMAIN s |-> s[Len(s) + 1 - i]]

\* lists passed to reorderProjects: the collection reversed, and the
\* collection without its first project with the next one moved to the end
ReorderInputs ==
    { Reverse(projects),
      IF Len(projects) < 2 THEN <<>>
      ELSE Append(SubSeq(projects, 3, Len(projects)), projects[2]) }

\* the date passed to setCurrentWeek: the weekDate of the oldest demo
\* updates (25 weeks ago), which two of the seven demo projects have
WeekInputs == {2624}

\* the number of projects of the store with the id
Matches(id) == Cardinality(Matching(projects, id))

Next ==
    \/ \E projectData \in ProjectDataInputs, r \in Randoms, reads \in ClockReads(2) :
           addProject(projectData, r, reads)
    \/ \E c \in UpdateProjectCalls :
           \E reads \in ClockReads(Matches(c[1])) : updateProject(c[1], c[2], reads)
    \/ \E id \in TargetIds : deleteProject(id)
    \/ \E c \in AddCalls, updateData \in UpdateDataInputs :
           \E reads \in ClockReads(2 + Matches(c[1])) :
               addWeeklyUpdate(c[1], updateData, c[2], reads)
    \/ \E c \in UpdateWeeklyUpdateCalls :
           \E reads \in ClockReads(Matches(c[1])) :
               updateWeeklyUpdate(c[1], c[2], c[3], reads)
    \/ \E c \in DeleteWeeklyUpdateCalls :
           \E reads \in ClockReads(Matches(c[1])) : deleteWeeklyUpdate(c[1], c[2], reads)
    \/ \E week \in WeekInputs : setCurrentWeek(week)
    \/ \E id \in TargetIds : toggleProjectInPresentation(id)
    \/ \E newProjectsOrder \in ReorderInputs : reorderProjects(newProjectsOrder)
    \/ \E week \in WeekInputs : readProjectsForWeek(week)
    \/ readProjectsWithUpdatesThisWeek
    \/ Tick

Spec == Init /\ [][Next]_vars

----------------------------------------------------------------------------
(* Vocabulary of the properties *)

Op(name) == lastOp.op = name

\* the project id the last call was made with
Target == IF Has(lastOp, "projectId") THEN lastOp.projectId ELSE lastOp.id

Ids(ps) == {ps[i].id : i \in DOMAIN ps}

UpdateIds(p) == {p.weeklyUpdates[k].id : k \in DOMAIN p.weeklyUpdates}

AllUpdateIds(ps) == UNION {UpdateIds(ps[i]) : i \in DOMAIN ps}

\* the j-th smallest element of a set of positions
Nth(S, j) == CHOOSE k \in S : Cardinality({m \in S : m <= k}) = j

\* `after` consists of the elements of `orig` at the positions `keep`,
\* unchanged and in their original order
KeepsExactly(after, orig, keep) ==
    /\ Len(after) = Cardinality(keep)
    /\ \A j \in 1 .. Len(after) : after[j] = orig[Nth(keep, j)]

\* `new` is `old` with the fields of `changes` overwritten
Merged(new, old, changes) ==
    /\ DOMAIN new = (DOMAIN old) \cup (DOMAIN changes)
    /\ \A f \in DOMAIN changes : new[f] = changes[f]
    /\ \A f \in (DOMAIN old) \ (DOMAIN changes) : new[f] = old[f]

\* two objects agree on every field outside `fields`
SameExcept(new, old, fields) ==
    /\ (DOMAIN new) \ fields = (DOMAIN old) \ fields
    /\ \A f \in (DOMAIN old) \ fields : new[f] = old[f]

----------------------------------------------------------------------------
(* C1 .. C10: the store's mutations *)

\* C1: in every reachable state, every project that has weekly updates has
\* currentProgress equal to the progress of its most recently added or edited
\* update (as long as that update is still in the project).
C1_ProgressIsLastWrite ==
    \A i \in DOMAIN projects :
        \A k \in DOMAIN projects[i].weeklyUpdates :
            projects[i].weeklyUpdates[k].id = lastWrite[i]
                => projects[i].currentProgress = projects[i].weeklyUpdates[k].progress

\* C2: after addWeeklyUpdate(P.id, U), P.currentProgress is U.progress,
\* P.weeklyUpdates is the previous list with one element appended, and the id
\* of that element differs from every update id that existed before the call.
C2_AddWeeklyUpdate ==
    Op("addWeeklyUpdate") =>
        /\ Len(projects) = Len(before.projects)
        /\ \A i \in DOMAIN projects :
               before.projects[i].id = lastOp.projectId =>
                   LET old == before.projects[i].weeklyUpdates
                       new == projects[i].weeklyUpdates
                   IN /\ projects[i].currentProgress = lastOp.updateData.progress
                      /\ Len(new) = Len(old) + 1
                      /\ SubSeq(new, 1, Len(old)) = old
                      /\ Last(new).id \notin AllUpdateIds(before.projects)

\* C3: deleteWeeklyUpdate(projectId, updateId) removes exactly the updates
\* whose id is updateId, keeps the others in order, and leaves currentProgress
\* and every field other than weeklyUpdates and updatedAt unchanged.
C3_DeleteWeeklyUpdate ==
    Op("deleteWeeklyUpdate") =>
        /\ Len(projects) = Len(before.projects)
        /\ \A i \in DOMAIN projects :
               before.projects[i].id = lastOp.projectId =>
                   LET old == before.projects[i]
                       new == projects[i]
                   IN /\ KeepsExactly(new.weeklyUpdates, old.weeklyUpdates,
                             {k \in DOMAIN old.weeklyUpdates :
                                 old.weeklyUpdates[k].id # lastOp.updateId})
                      /\ new.currentProgress = old.currentProgress
                      /\ SameExcept(new, old, {"weeklyUpdates", "updatedAt"})

\* C3 witness: the update removed was appended last and had set the
\* project's currentProgress, which now differs from the newest update left.
C3_Witness ==
    /\ Op("deleteWeeklyUpdate")
    /\ \E i \in DOMAIN projects :
           LET old == before.projects[i]
               new == projects[i]
           IN /\ old.id = lastOp.projectId
              /\ Len(old.weeklyUpdates) > 1
              /\ Last(old.weeklyUpdates).id = lastOp.updateId
              /\ lastWrite[i] = lastOp.updateId
              /\ Last(old.weeklyUpdates).progress = old.currentProgress
              /\ Len(new.weeklyUpdates) = Len(old.weeklyUpdates) - 1
              /\ Last(new.weeklyUpdates).progress # new.currentProgress

\* C4: updateWeeklyUpdate(projectId, updateId, changes) merges changes into
\* the update with that id and leaves the project's other updates unchanged;
\* currentProgress becomes changes.progress when changes has a progress
\* (0 included) and is unchanged otherwise.
C4_UpdateWeeklyUpdate ==
    Op("updateWeeklyUpdate") =>
        /\ Len(projects) = Len(before.projects)
        /\ \A i \in DOMAIN projects :
               before.projects[i].id = lastOp.projectId =>
                   LET old == before.projects[i]
                       new == projects[i]
                   IN /\ Len(new.weeklyUpdates) = Len(old.weeklyUpdates)
                      /\ \A k \in DOMAIN old.weeklyUpdates :
                             IF old.weeklyUpdates[k].id = lastOp.updateId
                             THEN Merged(new.weeklyUpdates[k],
                                         old.weeklyUpdates[k], lastOp.changes)
                             ELSE new.weeklyUpdates[k] = old.weeklyUpdates[k]
                      /\ new.currentProgress =
                             IF Has(lastOp.changes, "progress")
                             THEN lastOp.changes.progress
                             ELSE old.currentProgress

\* C4 witness: an existing update was edited with progress 0 and the project's
\* progress, which was not 0, became 0.
C4_Witness ==
    /\ Op("updateWeeklyUpdate")
    /\ Has(lastOp.changes, "progress")
    /\ lastOp.changes.progress = 0
    /\ \E i \in DOMAIN projects :
           /\ before.projects[i].id = lastOp.projectId
           /\ lastOp.updateId \in UpdateIds(before.projects[i])
           /\ before.projects[i].currentProgress # 0
           /\ projects[i].currentProgress = 0

\* dates on which some project has, or had before the last call, an update
WeekDates(ps) ==
    UNION {{ps[i].weeklyUpdates[k].weekDate : k \in DOMAIN ps[i].weeklyUpdates} :
              i \in DOMAIN ps}

QueryDates == {currentWeek} \cup WeekDates(projects) \cup WeekDates(before.projects)

\* C5: after deleteProject(id) no project of the collection has that id, the
\* projects left are the other projects as they were (so none of the deleted
\* project's updates remain), and getProjectsForWeek(d) returns no project
\* with that id for any date d.
C5_DeleteProject ==
    Op("deleteProject") =>
        LET kept == {i \in DOMAIN before.projects :
                        before.projects[i].id # lastOp.id}
        IN /\ lastOp.id \notin Ids(projects)
           /\ KeepsExactly(projects, before.projects, kept)
           /\ \A d \in QueryDates : lastOp.id \notin Ids(getProjectsForWeek(d))

\* C5 witness: the project deleted had an update on the selected date, so
\* the query for that date returned it before the call, and other projects
\* are left.
C5_Witness ==
    /\ Op("deleteProject")
    /\ \E i \in DOMAIN before.projects :
           /\ before.projects[i].id = lastOp.id
           /\ \E k \in DOMAIN before.projects[i].weeklyUpdates :
                  before.projects[i].weeklyUpdates[k].weekDate = currentWeek
    /\ Len(projects) < Len(before.projects)
    /\ projects # <<>>

NotFoundOps ==
    { "updateProject", "deleteProject", "addWeeklyUpdate", "updateWeeklyUpdate",
      "deleteWeeklyUpdate", "toggleProjectInPresentation" }

\* C6: updateProject, deleteProject, addWeeklyUpdate, updateWeeklyUpdate,
\* deleteWeeklyUpdate and toggleProjectInPresentation called with a project
\* id that is not in the collection leave the projects, their order and
\* currentWeek unchanged; so a repeated deleteProject changes nothing.
C6_UnknownProjectIsNoOp ==
    (lastOp.op \in NotFoundOps /\ Target \notin Ids(before.projects)) =>
        /\ projects = before.projects
        /\ currentWeek = before.currentWeek

\* C6 witness: a project was deleted and deleteProject was called again
\* with the same id, which is by then unknown.
C6_Witness ==
    /\ nops = 2
    /\ Op("deleteProject")
    /\ lastOp.id # MissingId
    /\ lastOp.id \notin Ids(before.projects)
    /\ projects = before.projects

\* C7: updateWeeklyUpdate and deleteWeeklyUpdate called with an existing
\* project id and an update id that project does not have change nothing:
\* the project (currentProgress and updatedAt included) and the rest of the
\* store are as before.
C7_UnknownUpdateIsNoOp ==
    ( /\ lastOp.op \in {"updateWeeklyUpdate", "deleteWeeklyUpdate"}
      /\ lastOp.projectId \in Ids(before.projects)
      /\ \A i \in DOMAIN before.projects :
             before.projects[i].id = lastOp.projectId
                 => lastOp.updateId \notin UpdateIds(before.projects[i]) )
    => /\ projects = before.projects
       /\ currentWeek = before.currentWeek

\* C8: a project keeps its id through every call that leaves it in the
\* collection, and updateProject and updateWeeklyUpdate, whatever partial
\* changes they are passed, leave the id and createdAt of every weekly
\* update unchanged.
C8_IdsImmutable ==
    /\ lastOp.op \in { "updateProject", "addWeeklyUpdate", "updateWeeklyUpdate",
                       "deleteWeeklyUpdate", "toggleProjectInPresentation" }
           => /\ Len(projects) = Len(before.projects)
              /\ \A i \in DOMAIN projects : projects[i].id = before.projects[i].id
    /\ lastOp.op \in {"updateProject", "updateWeeklyUpdate"}
           => /\ Len(projects) = Len(before.projects)
              /\ \A i \in DOMAIN projects :
                     LET old == before.projects[i].weeklyUpdates
                         new == projects[i].weeklyUpdates
                     IN /\ Len(new) = Len(old)
                        /\ \A k \in DOMAIN new :
                               /\ new[k].id = old[k].id
                               /\ new[k].createdAt = old[k].createdAt

\* C9: updateProject, addWeeklyUpdate, updateWeeklyUpdate, deleteWeeklyUpdate
\* and toggleProjectInPresentation set the updatedAt of the project they
\* change to the time of the call (a reading of the clock between the start
\* of the call and its return), and so does reorderProjects for the projects
\* it stamps.
DuringCall(t) == lastOp.at <= t /\ t <= now

C9_UpdatedAtRefreshed ==
    /\ lastOp.op \in { "updateProject", "addWeeklyUpdate", "updateWeeklyUpdate",
                       "deleteWeeklyUpdate", "toggleProjectInPresentation" }
           => /\ Len(projects) = Len(before.projects)
              /\ \A i \in DOMAIN projects :
                     before.projects[i].id = Target
                         => DuringCall(projects[i].updatedAt)
    /\ Op("reorderProjects")
           => \A i \in DOMAIN projects : DuringCall(projects[i].updatedAt)

\* C10: after reorderProjects(list) the collection has the ids of list in the
\* supplied order, the displayOrder of the element at position i (from 0) is
\* i, and no other field of a supplied project is changed.
C10_ReorderProjects ==
    Op("reorderProjects") =>
        LET list == lastOp.newProjectsOrder
        IN /\ Len(projects) = Len(list)
           /\ \A i \in DOMAIN projects :
                  /\ projects[i].id = list[i].id
                  /\ projects[i].displayOrder = i - 1
                  /\ DOMAIN projects[i] = (DOMAIN list[i]) \cup {"displayOrder"}
                  /\ SameExcept(projects[i], list[i], {"displayOrder"})

\* C10 witness: a list of several projects in another order than the
\* collection's was supplied, one of them stamped by an earlier reorder with
\* a different position.
C10_Witness ==
    /\ Op("reorderProjects")
    /\ Len(projects) >= 2
    /\ [i \in DOMAIN projects |-> projects[i].id]
           # [i \in DOMAIN before.projects |-> before.projects[i].id]
    /\ \E i \in DOMAIN projects :
           /\ Has(lastOp.newProjectsOrder[i], "displayOrder")
           /\ lastOp.newProjectsOrder[i].displayOrder # i - 1

----------------------------------------------------------------------------
(* C11 .. C14: presentation flag, week queries, addProject, update ids *)

\* whether a project counts as active in the presentation: a project that
\* was never toggled has no flag and counts as active
CountsAsActive(p) ==
    ~Has(p, "isActiveInPresentation") \/ p.isActiveInPresentation

C11_ToggleStep ==
    (lastOp'.op = "toggleProjectInPresentation" /\ nops' = nops + 1) =>
        /\ Len(projects') = Len(projects)
        /\ \A i \in DOMAIN projects :
               IF projects[i].id = lastOp'.id
               THEN /\ Has(projects'[i], "isActiveInPresentation")
                    /\ projects'[i].isActiveInPresentation = ~CountsAsActive(projects[i])
                    /\ SameExcept(projects'[i], projects[i], {"isActiveInPresentation"})
               ELSE projects'[i] = projects[i]
        /\ (Op("toggleProjectInPresentation") /\ lastOp.id = lastOp'.id) =>
               \A i \in DOMAIN projects :
                   /\ CountsAsActive(projects'[i]) = CountsAsActive(before.projects[i])
                   /\ SameExcept(projects'[i], before.projects[i],
                                 {"isActiveInPresentation"})

\* C11: toggleProjectInPresentation(id) sets isActiveInPresentation of the
\* project with that id to the negation of its effective value, an absent
\* flag counting as true, and changes no other field and no other project; a
\* second toggle of the same id right after the first restores the effective
\* value every project had before the first.
C11_Toggle == [][C11_ToggleStep]_vars

\* C11 witness: a project that had never been toggled was toggled twice in
\* a row: the first call set its flag to false, the second back to true.
C11_Witness ==
    /\ nops = 2
    /\ Op("toggleProjectInPresentation")
    /\ \E i \in DOMAIN projects :
           /\ projects[i].id = lastOp.id
           /\ Has(before.projects[i], "isActiveInPresentation")
           /\ ~before.projects[i].isActiveInPresentation
           /\ projects[i].isActiveInPresentation

\* the positions of the projects of ps that have an update dated d
HavingUpdateOn(ps, d) ==
    {i \in DOMAIN ps :
        \E k \in DOMAIN ps[i].weeklyUpdates : ps[i].weeklyUpdates[k].weekDate = d}

\* C12: in every reachable state getProjectsForWeek(d) is, in collection
\* order, exactly the projects having an update whose weekDate is d, and
\* getProjectsWithUpdatesThisWeek() equals getProjectsForWeek(currentWeek);
\* a call of either returns that result and leaves projects and currentWeek
\* as they were.
C12_WeekQueries ==
    /\ \A d \in {currentWeek} \cup WeekInputs :
           KeepsExactly(getProjectsForWeek(d), projects, HavingUpdateOn(projects, d))
    /\ getProjectsWithUpdatesThisWeek = getProjectsForWeek(currentWeek)
    /\ Op("getProjectsForWeek") =>
           /\ projects = before.projects
           /\ currentWeek = before.currentWeek
           /\ KeepsExactly(lastOp.result, projects, HavingUpdateOn(projects, lastOp.week))
    /\ Op("getProjectsWithUpdatesThisWeek") =>
           /\ projects = before.projects
           /\ currentWeek = before.currentWeek
           /\ KeepsExactly(lastOp.result, projects, HavingUpdateOn(projects, currentWeek))

\* C12 witness: getProjectsWithUpdatesThisWeek() returned some but not all
\* of the projects, each of them having an update dated currentWeek.
C12_Witness ==
    /\ Op("getProjectsWithUpdatesThisWeek")
    /\ lastOp.result # <<>>
    /\ Len(lastOp.result) < Len(projects)
    /\ \A j \in DOMAIN lastOp.result :
           \E k \in DOMAIN lastOp.result[j].weeklyUpdates :
               lastOp.result[j].weeklyUpdates[k].weekDate = currentWeek

\* C13: addProject(data) appends exactly one project at the end, leaving the
\* projects that existed and their order unchanged; the new project has an
\* id distinct from every existing project id, no weekly updates, createdAt
\* equal to updatedAt, and every field of data (currentProgress included)
\* as supplied.
C13_AddProject ==
    Op("addProject") =>
        LET data == lastOp.projectData
            new == Last(projects)
        IN /\ Len(projects) = Len(before.projects) + 1
           /\ SubSeq(projects, 1, Len(before.projects)) = before.projects
           /\ new.id \notin Ids(before.projects)
           /\ new.weeklyUpdates = <<>>
           /\ new.createdAt = new.updatedAt
           /\ \A f \in DOMAIN data : new[f] = data[f]
           /\ DOMAIN new = (DOMAIN data)
                              \cup {"id", "weeklyUpdates", "createdAt", "updatedAt"}

\* the places (project position, update position) of the weekly updates
UpdatePlaces(ps) ==
    UNION {{<<i, k>> : k \in DOMAIN ps[i].weeklyUpdates} : i \in DOMAIN ps}

\* C14: in every reachable state no update id occurs in the weeklyUpdates of
\* two different projects, nor twice within one project.
C14_UpdateIdsUnique ==
    \A a, b \in UpdatePlaces(projects) :
        projects[a[1]].weeklyUpdates[a[2]].id = projects[b[1]].weeklyUpdates[b[2]].id
            => a = b

----------------------------------------------------------------------------
(* Reports page and presentation summary: the derived views              *)
(* (src/unnamed/part_004, src/ui/src/pages/Reports.tsx,                  *)
(*  src/ui/src/components/PresentationMode.tsx)                          *)
(*                                                                       *)
(* The views read name, status, currentProgress and, of each weekly      *)
(* update, weekDate and progress; the projects below carry those fields. *)
(* A value of type number | null is a sequence of at most one number.    *)

\* Time zones of the browser: new Date('YYYY-MM-DD') is midnight UTC, whose
\* local calendar day is the day before west of Greenwich (parseShift), and
\* a local midnight printed by toISOString() is the day before east of
\* Greenwich (midnightShift).
Zones ==
    { [zone |-> "UTC",   parseShift |-> 0,  midnightShift |-> 0],
      [zone |-> "UTC+3", parseShift |-> 0,  midnightShift |-> -1],
      [zone |-> "UTC-5", parseShift |-> -1, midnightShift |-> 0] }

\* new Date(dateStr): the local calendar day of the instant
newDate(dateStr, z) == dateStr + z.parseShift

\* Reports.getMondayOfWeek (part_004)
getMondayOfWeek(dateStr, z) ==
    LET date == newDate(dateStr, z)
        day == getDay(date)
        diff == date - day + (IF day = 0 THEN -6 ELSE 1)
    IN toISODate(diff, z.midnightShift)

\* Array.prototype.find, given the set of positions whose element passes the
\* test: the first of them, 0 if none
Find(hits) ==
    IF hits = {} THEN 0 ELSE CHOOSE k \in hits : \A m \in hits : k <= m

\* s.filter(u => u.weekDate <= limit).sort((a, b) => b.weekDate.localeCompare(
\* a.weekDate))[0]: the position of the latest update not after limit, the
\* first such in list order (the sort is stable); 0 if none
LatestNotAfter(s, limit) ==
    LET hits == {k \in DOMAIN s : s[k].weekDate <= limit}
    IN IF hits = {} THEN 0
       ELSE CHOOSE k \in hits :
                \A m \in hits : \/ s[m].weekDate < s[k].weekDate
                                \/ (s[m].weekDate = s[k].weekDate /\ k <= m)

\* projects.slice(0, n)
Slice0(s, n) == SubSeq(s, 1, Min(n, Len(s)))

\* the chart shows the first 8 projects
ChartLimit == 8

\* closestUpdate of progressChartData and of the active-projects list
closestUpdate(p, selectedMonday) ==
    LET weekUpdate == Find({k \in DOMAIN p.weeklyUpdates :
                               p.weeklyUpdates[k].weekDate = selectedMonday})
    IN IF weekUpdate # 0 THEN weekUpdate
       ELSE LatestNotAfter(p.weeklyUpdates, selectedMonday)

\* Reports.progressChartData (part_004)
progressChartData(ps, week, z) ==
    LET selectedMonday == getMondayOfWeek(week, z)
        shown == Slice0(ps, ChartLimit)
    IN [j \in DOMAIN shown |->
           LET p == shown[j]
               k == closestUpdate(p, selectedMonday)
           IN [ fullName |-> p.name,
                progress |-> IF k # 0 THEN p.weeklyUpdates[k].progress ELSE 0 ]]

\* the list of active projects of the page (part_004): selectedProgress of
\* every project that is not completed
activeProjectsList(ps, week, z) ==
    LET active == FilterSeq(ps, {i \in DOMAIN ps : ps[i].status # "completed"})
        selectedMonday == getMondayOfWeek(week, z)
    IN [j \in DOMAIN active |->
           LET k == closestUpdate(active[j], selectedMonday)
           IN [ fullName |-> active[j].name,
                progress |-> IF k # 0 THEN active[j].weeklyUpdates[k].progress ELSE 0 ]]

\* Reports.progressChartData (src/ui/src/pages/Reports.tsx)
pagesProgressChartData(ps) ==
    LET shown == Slice0(ps, ChartLimit)
    IN [j \in DOMAIN shown |->
           [fullName |-> shown[j].name, progress |-> shown[j].currentProgress]]

\* projects.filter(p => p.status === status).length
CountStatus(ps, status) == Cardinality({i \in DOMAIN ps : ps[i].status = status})

RECURSIVE SumProgress(_)
\* projects.reduce((acc, p) => acc + p.currentProgress, 0)
SumProgress(ps) ==
    IF ps = <<>> THEN 0
    ELSE SumProgress(SubSeq(ps, 1, Len(ps) - 1)) + ps[Len(ps)].currentProgress

\* Reports.summaryStats (part_004; the same text in pages/Reports.tsx)
summaryStats(ps) ==
    LET total == Len(ps)
    IN [ total |-> total,
         onTrack |-> CountStatus(ps, "on_track"),
         atRisk |-> CountStatus(ps, "at_risk"),
         delayed |-> CountStatus(ps, "delayed"),
         completed |-> CountStatus(ps, "completed"),
         avgProgress |-> IF total > 0 THEN MathRound(SumProgress(ps), total) ELSE 0 ]

\* the average cut off instead of rounded
presentationSummaryStats_Floor(ps) ==
    [ total |-> Len(ps),
      onTrack |-> CountStatus(ps, "on_track"),
      atRisk |-> CountStatus(ps, "at_risk"),
      delayed |-> CountStatus(ps, "delayed"),
      completed |-> CountStatus(ps, "completed"),
      avgProgress |-> IF Len(ps) > 0 THEN SumProgress(ps) \div Len(ps) ELSE 0 ]

\* PresentationMode.summaryStats
presentationSummaryStats(ps) ==
    [ total |-> Len(ps),
      onTrack |-> CountStatus(ps, "on_track"),
      atRisk |-> CountStatus(ps, "at_risk"),
      delayed |-> CountStatus(ps, "delayed"),
      completed |-> CountStatus(ps, "completed"),
      avgProgress |-> IF Len(ps) > 0 THEN MathRound(SumProgress(ps), Len(ps)) ELSE 0 ]

\* the values of trendTimeRange
TrendTimeRanges == {"week", "month", "quarter", "2quarters", "year"}

\* progressTrendData.rangeWeeks
rangeWeeks(range) ==
    CASE range = "week" -> 1
      [] range = "month" -> 4
      [] range = "quarter" -> 13
      [] range = "2quarters" -> 26
      [] range = "year" -> 52

\* progressTrendData.getMonday: the local Monday of the week of a local day
trendGetMonday(date) ==
    LET day == getDay(date)
    IN date - day + (IF day = 0 THEN -6 ELSE 1)

\* progressTrendData.isDateInWeek: weekMonday is a local midnight, the week
\* ends on the local Sunday at 23:59:59.999, and the date is an instant
isDateInWeek(dateStr, weekMonday, z) ==
    LET date == newDate(dateStr, z)
        weekSunday == weekMonday + 6
    IN date >= weekMonday /\ date <= weekSunday

\* number | null
Null == <<>>

Number(n) == <<n>>

\* Reports.progressTrendData (part_004): row r is pushed r-th; its label is
\* the local Monday of the bucket and project[index] is project_<index>
progressTrendData(ps, week, range, z) ==
    LET selectedDate == newDate(week, z)
        currentWeekMonday == trendGetMonday(selectedDate)
        numWeeks == rangeWeeks(range)
        shown == Slice0(ps, ChartLimit)
    IN [r \in 1 .. numWeeks |->
           LET i == numWeeks - r
               weekMonday == currentWeekMonday - (i * 7)
           IN [ week |-> weekMonday,
                project |->
                    [index \in 0 .. (Len(shown) - 1) |->
                        LET us == shown[index + 1].weeklyUpdates
                            weekUpdate ==
                                Find({k \in DOMAIN us :
                                         isDateInWeek(us[k].weekDate, weekMonday, z)})
                        IN IF weekUpdate # 0 THEN Number(us[weekUpdate].progress)
                           ELSE Null] ]]

\* p.owner || 'Unassigned'
ownerOrUnassigned(p) ==
    IF ~Has(p, "owner") \/ p.owner = "" THEN "Unassigned" ELSE p.owner

RECURSIVE KeysInserted(_)
\* the keys of ownerCounts in the order the forEach creates them
KeysInserted(ps) ==
    IF ps = <<>> THEN <<>>
    ELSE LET front == KeysInserted(SubSeq(ps, 1, Len(ps) - 1))
             owner == ownerOrUnassigned(ps[Len(ps)])
         IN IF \E k \in DOMAIN front : front[k] = owner THEN front
            ELSE Append(front, owner)

\* the number a property key is when it is a canonical array index ("7"),
\* -1 when it is not; the owner names of the model are listed
ArrayIndex(key) ==
    CASE key = "7" -> 7
      [] key = "12" -> 12
      [] OTHER -> -1

RECURSIVE Ascending(_)
\* a set of keys that are array indices, in ascending numeric order
Ascending(keys) ==
    IF keys = {} THEN <<>>
    ELSE LET least == CHOOSE k \in keys : \A m \in keys : ArrayIndex(k) <= ArrayIndex(m)
         IN <<least>> \o Ascending(keys \ {least})

\* the keys in the order Object.entries / Object.keys lists the own
\* properties: array indices ascending first, then strings as created
OwnPropertyKeys(inserted) ==
    Ascending({inserted[k] : k \in {k \in DOMAIN inserted : ArrayIndex(inserted[k]) >= 0}})
        \o FilterSeq(inserted, {k \in DOMAIN inserted : ArrayIndex(inserted[k]) < 0})

\* owner.substring(0, 12) + '...' for the owner names of the model
substring12(owner) ==
    CASE owner = "a-very-long-owner" -> "a-very-long-" \o "..."
      [] OTHER -> owner

\* Reports.ownerChartData (part_004)
ownerChartData(ps) ==
    LET keys == OwnPropertyKeys(KeysInserted(ps))
        entries ==
            [k \in DOMAIN keys |->
                LET owner == keys[k]
                    count == Cardinality({i \in DOMAIN ps : ownerOrUnassigned(ps[i]) = owner})
                IN [ name |-> IF Len(owner) > 12 THEN substring12(owner) ELSE owner,
                     value |-> count,
                     fullName |-> owner ]]
    IN Slice0(entries, 8)

----------------------------------------------------------------------------
(* Arrays the views sort, and the Projects page list *)

\* the keys of statusCounts in the order they are created in
StatusKeys == << "on_track", "at_risk", "delayed", "completed", "on_hold" >>

\* Reports.statusChartData (part_004): the statuses that occur, with their
\* counts (the label of the status, a fixed text, is left out)
statusChartData(ps) ==
    LET entries == [k \in DOMAIN StatusKeys |->
                       [status |-> StatusKeys[k], value |-> CountStatus(ps, StatusKeys[k])]]
    IN FilterSeq(entries, {k \in DOMAIN entries : entries[k].value > 0})

\* Array.prototype.sort is stable and orders its receiver in place: the
\* positions of s in the order of the integer keys (keys[i] is the key of
\* s[i]), equal keys in list order
StableOrder(keys) ==
    [j \in DOMAIN keys |->
        CHOOSE i \in DOMAIN keys :
            Cardinality({m \in DOMAIN keys :
                            \/ keys[m] < keys[i]
                            \/ (keys[m] = keys[i] /\ m < i)}) = j - 1]

\* s.sort(...) by the keys
Sorted(s, keys) == [j \in DOMAIN s |-> s[StableOrder(keys)[j]]]

\* An array of the program is more than its items: `at` is the place that
\* holds it. state.projects and the weeklyUpdates of each project are the
\* arrays of the store; an array returned by filter, slice, map or a spread,
\* and every array or object literal of a view, is newly allocated.
ProjectsPlace == [array |-> "state.projects", of |-> 0]

\* the weeklyUpdates of the project at position i of state.projects
UpdatesPlace(i) == [array |-> "weeklyUpdates", of |-> i]

Allocated == [array |-> "allocated", of |-> 0]

ArrayAt(place, items) == [at |-> place, items |-> items]

\* a.filter(...): a new array with the items of a at the positions `hits`
filter(a, hits) == ArrayAt(Allocated, FilterSeq(a.items, hits))

\* [...a]: a new array with the items of a
spreadArray(a) == ArrayAt(Allocated, a.items)

\* a.sort(...): the receiver itself, its items now in the order of the keys
sort(a, keys) == ArrayAt(a.at, Sorted(a.items, keys))

\* the store's projects once the arrays of `written` (the arrays a view has
\* sorted or assigned to, as the view leaves them) are where they live: an
\* array of the store has new items, a newly allocated one is dropped with
\* the view. No view writes both state.projects and a project's updates.
StoreAfter(ps, written) ==
    LET held == IF \E w \in written : w.at = ProjectsPlace
                THEN (CHOOSE w \in written : w.at = ProjectsPlace).items
                ELSE ps
    IN [i \in DOMAIN held |->
           IF \E w \in written : w.at = UpdatesPlace(i)
           THEN [held[i] EXCEPT !.weeklyUpdates =
                                    (CHOOSE w \in written : w.at = UpdatesPlace(i)).items]
           ELSE held[i]]

\* the arrays closestUpdate sorts, were sort called on p.weeklyUpdates
\* without the filter before it
closestUpdateSorts_SortsStore(p, i, selectedMonday) ==
    LET weeklyUpdates == ArrayAt(UpdatesPlace(i), p.weeklyUpdates)
        weekUpdate == Find({k \in DOMAIN weeklyUpdates.items :
                               weeklyUpdates.items[k].weekDate = selectedMonday})
    IN IF weekUpdate # 0 THEN {}
       ELSE {sort(weeklyUpdates,
                  [k \in DOMAIN weeklyUpdates.items |-> 0 - weeklyUpdates.items[k].weekDate])}

\* the arrays closestUpdate sorts for the project p at position i of the
\* store: weekUpdate || p.weeklyUpdates.filter(u => u.weekDate <=
\* selectedMonday).sort((a, b) => b.weekDate.localeCompare(a.weekDate))[0]
\* (part_004 127-131 and 523-526). The right side of || is evaluated only
\* when no update is dated selectedMonday, and the receiver of sort is what
\* filter returns.
closestUpdateSorts(p, i, selectedMonday) ==
    LET weeklyUpdates == ArrayAt(UpdatesPlace(i), p.weeklyUpdates)
        weekUpdate == Find({k \in DOMAIN weeklyUpdates.items :
                               weeklyUpdates.items[k].weekDate = selectedMonday})
        filtered == filter(weeklyUpdates,
                           {k \in DOMAIN weeklyUpdates.items :
                               weeklyUpdates.items[k].weekDate <= selectedMonday})
    IN IF weekUpdate # 0 THEN {}
       ELSE {sort(filtered,
                  [k \in DOMAIN filtered.items |-> 0 - filtered.items[k].weekDate])}

\* the arrays progressChartData sorts: closestUpdate runs for the projects
\* of projects.slice(0, 8), whose weeklyUpdates are those of the store
progressChartSorts(ps, week, z) ==
    LET selectedMonday == getMondayOfWeek(week, z)
    IN UNION {closestUpdateSorts(ps[i], i, selectedMonday) :
                 i \in 1 .. Min(ChartLimit, Len(ps))}

\* the arrays the list of active projects sorts: closestUpdate runs for the
\* projects of projects.filter(p => p.status !== 'completed')
activeProjectsListSorts(ps, week, z) ==
    LET selectedMonday == getMondayOfWeek(week, z)
    IN UNION {closestUpdateSorts(ps[i], i, selectedMonday) :
                 i \in {i \in DOMAIN ps : ps[i].status # "completed"}}

\* the empty date string of the project form
NoDate == 0

\* new Date(...).getTime() of no date
Infinity == 1000000

\* the names of the collections in the order of localeCompare
NamesInLocaleOrder ==
    << "project 1", "project 10", "project 11", "project 2", "project 3",
       "project 4", "project 5", "project 6", "project 7", "project 8",
       "project 9" >>

\* a.name.localeCompare(b.name) is the difference of the ranks
NameRank(name) == CHOOSE k \in DOMAIN NamesInLocaleOrder : NamesInLocaleOrder[k] = name

statusOrder == [on_track |-> 1, at_risk |-> 2, delayed |-> 3, on_hold |-> 4, completed |-> 5]

\* text.toLowerCase().includes(query), for the search texts of the model
includes(text, query) ==
    CASE query = "" -> TRUE
      [] query = "project 1" -> text \in {"project 1", "project 10", "project 11"}
      [] query = "owner" -> text \in {"owner-1", "owner-2", "owner-3", "owner-4", "owner-5",
                                      "owner-6", "owner-7", "a-very-long-owner"}
      [] query = "un" -> text = "Unassigned"
      [] OTHER -> FALSE

\* the key of a project in the sort of the list
sortKey(p, sortBy, sortOrder) ==
    LET comparison ==
            CASE sortBy = "name" -> NameRank(p.name)
              [] sortBy = "progress" -> p.currentProgress
              [] sortBy = "date" -> IF p.targetEndDate # NoDate THEN p.targetEndDate ELSE Infinity
              [] sortBy = "status" -> statusOrder[p.status]
    IN IF sortOrder = "asc" THEN comparison ELSE 0 - comparison

\* `result` of Projects.filteredProjects after its sort: s is the state of
\* the page (showCompletedProjects, searchQuery, statusFilter, sortBy,
\* sortOrder). result starts as [...projects], each filter that applies
\* replaces it by a new array, and result.sort orders the array it then is.
filteredResult(ps, s) ==
    LET result0 == spreadArray(ArrayAt(ProjectsPlace, ps))
        result1 == IF ~s.showCompletedProjects
                   THEN filter(result0, {i \in DOMAIN result0.items :
                                            result0.items[i].status # "completed"})
                   ELSE result0
        result2 == IF s.searchQuery # ""
                   THEN filter(result1,
                               {i \in DOMAIN result1.items :
                                   \/ includes(result1.items[i].name, s.searchQuery)
                                   \/ includes(result1.items[i].description, s.searchQuery)
                                   \/ includes(result1.items[i].owner, s.searchQuery)})
                   ELSE result1
        result3 == IF s.statusFilter # "all"
                   THEN filter(result2, {i \in DOMAIN result2.items :
                                            result2.items[i].status = s.statusFilter})
                   ELSE result2
    IN sort(result3, [i \in DOMAIN result3.items |->
                         sortKey(result3.items[i], s.sortBy, s.sortOrder)])

\* Projects.filteredProjects: the items of the sorted result
filteredProjects(ps, s) == filteredResult(ps, s).items

----------------------------------------------------------------------------
(* The slideshow *)

\* project.weeklyUpdates.reduce((latest, update) => new Date(update.weekDate)
\* > new Date(latest.weekDate) ? update : latest): the position of the first
\* update of the latest date, 0 (null) if the project has none
latestUpdate(project) ==
    LET u == project.weeklyUpdates
    IN IF Len(u) = 0 THEN 0
       ELSE CHOOSE k \in DOMAIN u :
                /\ \A m \in DOMAIN u : u[m].weekDate <= u[k].weekDate
                /\ \A m \in 1 .. (k - 1) : u[m].weekDate < u[k].weekDate

\* (p.isActiveInPresentation ?? true) as if the status were not looked at
activeProjects_FlagOnly(ps) ==
    FilterSeq(ps, {i \in DOMAIN ps :
                      IF Has(ps[i], "isActiveInPresentation")
                      THEN ps[i].isActiveInPresentation ELSE TRUE})

\* PresentationMode.activeProjects
activeProjects(ps) ==
    FilterSeq(ps, {i \in DOMAIN ps :
                      /\ IF Has(ps[i], "isActiveInPresentation")
                         THEN ps[i].isActiveInPresentation ELSE TRUE
                      /\ ps[i].status # "completed"})

\* PresentationMode.slides; a project slide shows the project's latest update
slides(ps) ==
    LET active == activeProjects(ps)
    IN << [type |-> "title"], [type |-> "summary"], [type |-> "progress-chart"] >>
       \o [j \in DOMAIN active |->
              [ type |-> "project", project |-> active[j],
                latestUpdate |-> latestUpdate(active[j]) ]]
       \o << [type |-> "thankyou"] >>

----------------------------------------------------------------------------
(* The collections and dates the views are computed for *)

MaxProjects == 9   \* projects in a collection (the charts show ChartLimit)
MaxSpan == 15      \* days after RefMonday the selected date may lie

\* a Monday, standing for 2024-01-01
RefMonday == 2800

\* Project shapes: status, currentProgress and weekly updates
\*   1  never updated (Scenario A)
\*   2  updates on 2024-01-01 (10) and 2024-01-15 (30) (Scenario C)
\*   3  a single update on 2024-01-08 (40) (Scenarios B and E)
\*   4  an update on a Wednesday, stored before an older one
\*   5  two updates in one week, the first with progress 0
\*   6  completed three weeks after RefMonday
ProjectShapes ==
    << [ status |-> "on_track", currentProgress |-> 0, weeklyUpdates |-> <<>> ],
       [ status |-> "on_track", currentProgress |-> 30,
         weeklyUpdates |-> << [weekDate |-> RefMonday, progress |-> 10],
                              [weekDate |-> RefMonday + 14, progress |-> 30] >> ],
       [ status |-> "at_risk", currentProgress |-> 40,
         weeklyUpdates |-> << [weekDate |-> RefMonday + 7, progress |-> 40] >> ],
       [ status |-> "delayed", currentProgress |-> 50,
         weeklyUpdates |-> << [weekDate |-> RefMonday + 9, progress |-> 50],
                              [weekDate |-> RefMonday, progress |-> 10] >> ],
       [ status |-> "on_hold", currentProgress |-> 25,
         weeklyUpdates |-> << [weekDate |-> RefMonday + 7, progress |-> 0],
                              [weekDate |-> RefMonday + 8, progress |-> 25] >> ],
       [ status |-> "completed", currentProgress |-> 100,
         weeklyUpdates |-> << [weekDate |-> RefMonday + 21, progress |-> 100] >> ] >>

\* Owner names (free text of the project form): none, repeated, the
\* sentinel itself, longer than 12 characters, and all digits
Owners ==
    << "owner-1", "", "owner-2", "owner-1", "owner-3", "a-very-long-owner",
       "Unassigned", "owner-4", "owner-5", "owner-6", "owner-7", "7" >>

\* a collection of n projects whose shapes and owners follow one another
\* from `first`; the k-th update of project i has the id "u<i>-<k>"
Collection(n, first) ==
    [i \in 1 .. n |->
        Spread(Spread(ProjectShapes[((first + i - 2) % Len(ProjectShapes)) + 1],
                      [ id |-> "p" \o ToString(i), name |-> "project " \o ToString(i),
                        weeklyUpdates |->
                            LET u == ProjectShapes[((first + i - 2) % Len(ProjectShapes)) + 1]
                                         .weeklyUpdates
                            IN [k \in DOMAIN u |->
                                   Spread(u[k], [id |-> "u" \o ToString(i) \o "-" \o ToString(k)])],
                        description |-> "",
                        owner |-> Owners[((first + i - 2) % Len(Owners)) + 1],
                        targetEndDate |-> IF i % 3 = 0 THEN NoDate
                                          ELSE RefMonday + 70 - 7 * (i % 2) ]),
               CASE i % 3 = 1 -> <<>>
                 [] i % 3 = 2 -> [isActiveInPresentation |-> TRUE]
                 [] OTHER -> [isActiveInPresentation |-> FALSE])]

Collections ==
    {Collection(n, first) : n \in 0 .. MaxProjects, first \in DOMAIN ProjectShapes}

\* selected dates: from the Sunday before RefMonday on
SelectedDates == (RefMonday - 1) .. (RefMonday + MaxSpan)

ReportsInit ==
    \E ps \in Collections, week \in SelectedDates :
        /\ projects = ps
        /\ currentWeek = week
        /\ now = Clock0
        /\ lastOp = [op |-> "init"]
        /\ nops = 0
        /\ before = [projects |-> ps, currentWeek |-> week]
        /\ lastWrite = [i \in DOMAIN ps |-> ""]
        /\ presentation = Mounted
        /\ calledWhileOpen = FALSE

\* a view is computed from the store and shown. `written` is the set of
\* arrays and objects its computation has sorted or assigned to; those that
\* live in the store leave the store changed. The views are functions of the
\* store, the range and the time zone, so a behaviour computes one view of
\* the inputs it started with.
Rendered(view, written) ==
    /\ nops = 0
    /\ nops' = 1
    /\ lastOp' = view
    /\ projects' = StoreAfter(projects, written)
    /\ UNCHANGED <<currentWeek, now, before, lastWrite, presentation,
                 calledWhileOpen>>

renderProgressChart(z) ==
    Rendered([ op |-> "progressChartData", zone |-> z,
               result |-> progressChartData(projects, currentWeek, z) ],
             progressChartSorts(projects, currentWeek, z))

renderActiveProjectsList(z) ==
    Rendered([ op |-> "activeProjectsList", zone |-> z,
               result |-> activeProjectsList(projects, currentWeek, z) ],
             activeProjectsListSorts(projects, currentWeek, z))

\* slice and map only
renderPagesProgressChart ==
    Rendered([ op |-> "pagesProgressChartData",
               result |-> pagesProgressChartData(projects) ],
             {})

\* filter and reduce only
renderSummaryStats ==
    Rendered([op |-> "summaryStats", result |-> summaryStats(projects)], {})

\* filter and reduce only
renderPresentationSummary ==
    Rendered([ op |-> "presentationSummaryStats",
               result |-> presentationSummaryStats(projects) ],
             {})

\* ownerCounts[owner] = ... assigns to the object literal ownerCounts
renderOwnerChart ==
    Rendered([op |-> "ownerChartData", result |-> ownerChartData(projects)],
             {ArrayAt(Allocated, KeysInserted(projects))})

\* statusCounts[p.status]++ assigns to the object literal statusCounts
renderStatusChart ==
    Rendered([op |-> "statusChartData", result |-> statusChartData(projects)],
             {ArrayAt(Allocated,
                      [k \in DOMAIN StatusKeys |-> CountStatus(projects, StatusKeys[k])])})

\* weekData[...] = ... and weeks.push(weekData) write the object literal
\* weekData and the array literal weeks, which is the result
renderProgressTrend(range, z) ==
    Rendered([ op |-> "progressTrendData", range |-> range, zone |-> z,
               result |-> progressTrendData(projects, currentWeek, range, z) ],
             {ArrayAt(Allocated, progressTrendData(projects, currentWeek, range, z))})

\* the states of the Projects page the list is computed in
PageStates ==
    [ showCompletedProjects : BOOLEAN,
      searchQuery : {"", "project 1", "owner", "un"},
      statusFilter : {"all", "on_track", "completed"},
      sortBy : {"name", "progress", "date", "status"},
      sortOrder : {"asc", "desc"} ]

\* the list does not read the selected date: it is computed for one
renderFilteredProjects(s) ==
    /\ currentWeek = RefMonday
    /\ Rendered([ op |-> "filteredProjects", page |-> s,
                  result |-> filteredProjects(projects, s) ],
                {filteredResult(projects, s)})

\* the slides do not read the selected date either; filter, reduce and
\* the array literal of the slides only
renderSlides ==
    /\ currentWeek = RefMonday
    /\ Rendered([op |-> "slides", result |-> slides(projects)], {})

ReportsNext ==
    \/ \E z \in Zones : renderProgressChart(z)
    \/ \E z \in Zones : renderActiveProjectsList(z)
    \/ renderPagesProgressChart
    \/ renderSummaryStats
    \/ renderPresentationSummary
    \/ renderOwnerChart
    \/ renderStatusChart
    \/ \E range \in TrendTimeRanges, z \in Zones : renderProgressTrend(range, z)
    \/ \E s \in PageStates : renderFilteredProjects(s)
    \/ renderSlides

ReportsSpec == ReportsInit /\ [][ReportsNext]_vars

----------------------------------------------------------------------------
(* The date utilities (src/ui/src/utils/dateUtils.ts) and the list helpers *)
(* of src/ui/src/types/index.ts.  A Date is its instant, counted in hours  *)
(* of UTC; the local calendar day of an instant depends on the offset of   *)
(* the browser's time zone.                                                *)

HoursPerDay == 24

\* the offset of local time from UTC, in hours
utcOffset(z) ==
    CASE z.zone = "UTC" -> 0
      [] z.zone = "UTC+3" -> 3
      [] z.zone = "UTC-5" -> -5

\* new Date('YYYY-MM-DD'): midnight UTC of the day
parseISODate(dateStr) == dateStr * HoursPerDay

\* the local calendar day of an instant (getDate, getDay read it)
localDay(instant, z) == (instant + utcOffset(z)) \div HoursPerDay

\* d.setDate(day); d.setHours(0, 0, 0, 0): local midnight of a local day
localMidnight(day, z) == day * HoursPerDay - utcOffset(z)

\* d.toISOString().split('T')[0]: the UTC calendar day of an instant
toISOString(instant) == instant \div HoursPerDay

\* getWeekMonday(date)
getWeekMonday(date, z) ==
    LET d == localDay(date, z)
        day == getDay(d)
        diff == d - day + (IF day = 0 THEN -6 ELSE 1)
    IN localMidnight(diff, z)

\* getCurrentWeekMonday(), with new Date() the instant t
getCurrentWeekMonday(t, z) == toISOString(getWeekMonday(t, z))

\* getCurrentDate(), with new Date() the instant t
getCurrentDate(t, z) == toISOString(localMidnight(localDay(t, z), z))

\* isFutureWeek(mondayStr), the variant by weeks (dateUtils.ts 57-61)
isFutureWeekOfMondays(mondayStr, t, z) ==
    LET monday == parseISODate(mondayStr)
        currentMonday == getWeekMonday(t, z)
    IN monday > currentMonday

\* isFutureWeek(dateStr), the variant by dates (dateUtils.ts 139-144)
isFutureWeek(dateStr, t, z) ==
    LET selectedDate == parseISODate(dateStr)
        today == localMidnight(localDay(t, z), z)
    IN selectedDate > today

\* A string is the sequence of its characters; the characters of the model
\* are a letter, the space and the line break.
Whitespace == {" ", "\n"}

\* an argument of type string | string[] | undefined
StringValue(str) == [type |-> "string", value |-> str]

ArrayValue(list) == [type |-> "array", value |-> list]

Undefined == [type |-> "undefined"]

\* the truthiness of item.trim(): some character is not white space
trim(str) == \E k \in DOMAIN str : str[k] \notin Whitespace

RECURSIVE split(_)
\* str.split('\n')
split(str) ==
    LET breaks == {k \in DOMAIN str : str[k] = "\n"}
    IN IF breaks = {} THEN << str >>
       ELSE LET k == CHOOSE b \in breaks : \A m \in breaks : b <= m
            IN << SubSeq(str, 1, k - 1) >> \o split(SubSeq(str, k + 1, Len(str)))

RECURSIVE join(_, _)
\* list.join(separator)
join(list, separator) ==
    IF list = <<>> THEN <<>>
    ELSE IF Len(list) = 1 THEN list[1]
    ELSE list[1] \o separator \o join(Tail(list), separator)

\* !value: undefined and the empty string are falsy, every array is truthy
Falsy(value) ==
    \/ value.type = "undefined"
    \/ (value.type = "string" /\ value.value = <<>>)

\* normalizeToArray(value)
normalizeToArray(value) ==
    IF Falsy(value) THEN <<>>
    ELSE IF value.type = "array"
    THEN FilterSeq(value.value, {k \in DOMAIN value.value : trim(value.value[k])})
    ELSE LET lines == split(value.value)
         IN FilterSeq(lines, {k \in DOMAIN lines : trim(lines[k])})

\* normalizeToString(value), were the items joined by a space
normalizeToString_JoinsBySpace(value) ==
    IF Falsy(value) THEN <<>>
    ELSE IF value.type = "array"
    THEN join(FilterSeq(value.value, {k \in DOMAIN value.value : trim(value.value[k])}), << " " >>)
    ELSE value.value

\* normalizeToString(value)
normalizeToString(value) ==
    IF Falsy(value) THEN <<>>
    ELSE IF value.type = "array"
    THEN join(FilterSeq(value.value, {k \in DOMAIN value.value : trim(value.value[k])}), << "\n" >>)
    ELSE value.value

----------------------------------------------------------------------------
(* The utilities applied: a date, the clock and a time zone; a list *)

MaxItems == 2   \* items of a list

\* the instants the clock shows: every hour of three days of a week (a
\* Wednesday, a Sunday and the Monday after it), in UTC
Instants ==
    {day * HoursPerDay + hour :
        day \in {RefMonday + 2, RefMonday + 6, RefMonday + 7},
        hour \in 0 .. (HoursPerDay - 1)}

\* items of a list: empty, blank, plain, with spaces around, and with a
\* line break at the end, at the start and in the middle
ItemInputs ==
    { <<>>, << " " >>, << "\n" >>, << "a" >>, << " ", "a" >>, << "a", " " >>,
      << "a", "\n" >>, << "\n", "a" >>, << "a", "\n", "a" >> }

\* lists of at most MaxItems items
ListInputs == UNION {[1 .. len -> ItemInputs] : len \in 0 .. MaxItems}

UtilsInit ==
    \E date \in SelectedDates, t \in Instants :
        /\ projects = <<>>
        /\ currentWeek = date
        /\ now = t
        /\ lastOp = [op |-> "init"]
        /\ nops = 0
        /\ before = [projects |-> <<>>, currentWeek |-> date]
        /\ lastWrite = <<>>
        /\ presentation = Mounted
        /\ calledWhileOpen = FALSE

\* a utility is applied and its value kept; nothing is written
Applied(call) ==
    /\ nops = 0
    /\ nops' = 1
    /\ lastOp' = call
    /\ UNCHANGED <<projects, currentWeek, now, before, lastWrite, presentation,
                 calledWhileOpen>>

\* Reports.getMondayOfWeek of the date, and of its own result
applyGetMondayOfWeek(z) ==
    Applied([ op |-> "getMondayOfWeek", zone |-> z,
              result |-> getMondayOfWeek(currentWeek, z),
              again |-> getMondayOfWeek(getMondayOfWeek(currentWeek, z), z) ])

\* getWeekMonday of the ISO date, as an ISO date, and of its own result
applyGetWeekMonday(z) ==
    LET monday == toISOString(getWeekMonday(parseISODate(currentWeek), z))
    IN Applied([ op |-> "getWeekMonday", zone |-> z,
                 result |-> monday,
                 again |-> toISOString(getWeekMonday(parseISODate(monday), z)) ])

applyGetCurrentWeekMonday(z) ==
    Applied([ op |-> "getCurrentWeekMonday", zone |-> z,
              today |-> localDay(now, z),
              result |-> getCurrentWeekMonday(now, z) ])

applyGetCurrentDate(z) ==
    Applied([ op |-> "getCurrentDate", zone |-> z,
              today |-> localDay(now, z),
              result |-> getCurrentDate(now, z) ])

applyIsFutureWeek(z) ==
    Applied([ op |-> "isFutureWeek", zone |-> z,
              today |-> localDay(now, z),
              result |-> isFutureWeek(currentWeek, now, z) ])

applyIsFutureWeekOfMondays(z) ==
    Applied([ op |-> "isFutureWeekOfMondays", zone |-> z,
              today |-> localDay(now, z),
              result |-> isFutureWeekOfMondays(currentWeek, now, z) ])

\* the helpers read neither the date nor the clock: applied in one state
applyNormalize ==
    /\ currentWeek = RefMonday
    /\ now = (RefMonday + 2) * HoursPerDay
    /\ \E list \in ListInputs :
           Applied([ op |-> "normalize", list |-> list,
                     string |-> normalizeToString(ArrayValue(list)),
                     result |-> normalizeToArray(StringValue(normalizeToString(ArrayValue(list)))) ])

UtilsNext ==
    \/ \E z \in Zones : applyGetMondayOfWeek(z)
    \/ \E z \in Zones : applyGetWeekMonday(z)
    \/ \E z \in Zones : applyGetCurrentWeekMonday(z)
    \/ \E z \in Zones : applyGetCurrentDate(z)
    \/ \E z \in Zones : applyIsFutureWeek(z)
    \/ \E z \in Zones : applyIsFutureWeekOfMondays(z)
    \/ applyNormalize

UtilsSpec == UtilsInit /\ [][UtilsNext]_vars

----------------------------------------------------------------------------
(* Reordering by drag and drop on the Projects page                        *)
(* (src/ui/src/pages/Projects.tsx, lines 118-128 and 434-435)              *)

MaxListed == 3   \* projects of the store the page starts with

\* arrayMove(array, from, to) of @dnd-kit/sortable: the element at position
\* `from` taken out and put in at position `to` (positions from 1)
arrayMove(array, from, to) ==
    LET without == SubSeq(array, 1, from - 1) \o SubSeq(array, from + 1, Len(array))
    IN SubSeq(without, 1, to - 1) \o << array[from] >> \o SubSeq(without, to, Len(without))

\* the ids of the sortable items: filteredProjects.map(p => p.id)
SortableIds(s) ==
    {filteredProjects(projects, s)[i].id : i \in DOMAIN filteredProjects(projects, s)}

\* handleDragEnd(event) with the page in state s: active and over are items
\* of the list shown
handleDragEnd(s, active, over) ==
    LET shown == filteredProjects(projects, s)
        oldIndex == Find({i \in DOMAIN shown : shown[i].id = active})
        newIndex == Find({i \in DOMAIN shown : shown[i].id = over})
    IN /\ active # over
       /\ reorderProjects(arrayMove(shown, oldIndex, newIndex))

ProjectsPageInit ==
    \E n \in 0 .. MaxListed, first \in DOMAIN ProjectShapes :
        /\ projects = Collection(n, first)
        /\ currentWeek = RefMonday
        /\ now = Clock0
        /\ lastOp = [op |-> "init"]
        /\ nops = 0
        /\ before = [projects |-> Collection(n, first), currentWeek |-> RefMonday]
        /\ lastWrite = [i \in 1 .. n |-> ""]
        /\ presentation = Mounted
        /\ calledWhileOpen = FALSE

ProjectsPageNext ==
    \E s \in PageStates :
        \E active \in SortableIds(s), over \in SortableIds(s) : handleDragEnd(s, active, over)

ProjectsPageSpec == ProjectsPageInit /\ [][ProjectsPageNext]_vars

----------------------------------------------------------------------------
(* The presentation (src/ui/src/components/PresentationMode.tsx, mounted   *)
(* once by Layout and rendering nothing while isOpen is false).  An action *)
(* is one event or one callback with the render that follows it.  A         *)
(* setTimeout callback waits in `timers` until it runs, and the effect on   *)
(* isOpen of a closing render is pending (resetPending) until it runs.  The *)
(* page stays mounted under the overlay (Layout, <Outlet />), and the       *)
(* component reads the store on every render, so the handlers of the page   *)
(* write the store whether the presentation is open or closed.              *)

MaxSlideProjects == 2   \* projects of the store the presentation starts with
MaxPageCalls == 1       \* store calls after which no handler of the page starts

totalSlides == Len(slides(projects))

\* const currentSlideData = slides[currentSlide] is undefined when
\* currentSlide is not an index of the deck, and the render of the open
\* presentation throws on currentSlideData.type.  A component whose render
\* throws is unmounted with the tree around it: Layout, which holds isOpen,
\* and the page.  The fields keep the values that render was made with.
renderThrows ==
    /\ presentation.isOpen
    /\ ~(presentation.currentSlide \in 0 .. (totalSlides - 1))

\* an event of the presentation: the store is not written
Presented(event) ==
    /\ lastOp' = Spread(event, [from |-> presentation])
    /\ UNCHANGED <<projects, currentWeek, now, nops, before, lastWrite, calledWhileOpen>>

\* Layout, line 61: setShowPresentation(true), and the opening render.
\* React runs the pending effects of a commit before it renders again, so
\* an effect of the last closing render that has not run yet runs first;
\* the effect on isOpen of the opening render itself does nothing.
openPresentation ==
    /\ ~presentation.isOpen
    /\ presentation' =
           [presentation EXCEPT
               !.isOpen = TRUE,
               !.currentSlide = IF presentation.resetPending THEN 0 ELSE @,
               !.resetPending = FALSE]
    /\ Presented([op |-> "open"])

\* onClose (Escape, the close button) is () => setShowPresentation(false)
\* of Layout, line 142: the component renders nothing from here on and
\* keeps its state; the effect on isOpen is left to run, no timer is cleared
closePresentation ==
    /\ presentation.isOpen
    /\ ~renderThrows
    /\ presentation' = [presentation EXCEPT !.isOpen = FALSE, !.resetPending = TRUE]
    /\ Presented([op |-> "close"])

\* "Reset slide when closing", the effect on [isOpen] of the closing render
\* (lines 157-162): isOpen is false in it, so it calls setCurrentSlide(0)
resetSlideWhenClosing ==
    /\ presentation.resetPending
    /\ presentation' = [presentation EXCEPT !.currentSlide = 0, !.resetPending = FALSE]
    /\ Presented([op |-> "effect"])

\* the component state after goToSlide(index, direction)
goToSlideState(index, direction) ==
    IF index >= 0 /\ index < totalSlides /\ ~presentation.isAnimating
    THEN [presentation EXCEPT
             !.isAnimating = TRUE,
             !.slideDirection = direction,
             !.timers = @ \cup {index}]
    ELSE presentation

\* goToSlide(index, direction), called by a key or a button of the open
\* presentation
goToSlide(index, direction, by) ==
    /\ presentation.isOpen
    /\ ~renderThrows
    /\ presentation' = goToSlideState(index, direction)
    /\ Presented([op |-> "goToSlide", index |-> index, by |-> by])

nextSlide == goToSlide(presentation.currentSlide + 1, "next", "nextSlide")

prevSlide == goToSlide(presentation.currentSlide - 1, "prev", "prevSlide")

\* the Home key
goToFirst == goToSlide(0, "prev", "Home")

\* the End key
goToLast == goToSlide(totalSlides - 1, "next", "End")

\* a dot of the navigation bar: goToSlide(index)
goToDot(index) ==
    goToSlide(index, IF index > presentation.currentSlide THEN "next" ELSE "prev", "dot")

\* the callback of setTimeout(..., 50) runs: setCurrentSlide(index);
\* setIsAnimating(false), whether the presentation is open or closed and
\* whether the effect of the closing render has run or not; the setters of
\* an unmounted component change nothing
timerFires(index) ==
    /\ index \in presentation.timers
    /\ presentation' =
           IF renderThrows
           THEN [presentation EXCEPT !.timers = @ \ {index}]
           ELSE [presentation EXCEPT
                    !.currentSlide = index,
                    !.isAnimating = FALSE,
                    !.timers = @ \ {index}]
    /\ Presented([op |-> "timer", index |-> index])

----------------------------------------------------------------------------
(* The handlers of the pages under the presentation                        *)
(* (src/ui/src/pages/Projects.tsx and Reports.tsx).  An action is one      *)
(* handler with every call of the store it makes.  Nothing in the overlay  *)
(* keeps the page's controls from the keyboard, so a handler runs whether  *)
(* the presentation is open or closed, and the component renders the new   *)
(* deck with the currentSlide it has; a handler does not read or set the   *)
(* state of the presentation, so an effect that is pending stays pending.  *)
(* A dialog is opened in the store its form is submitted in; what the page *)
(* keeps from an earlier dialog (editingUpdate) is an input of the handler.*)

\* a handler of the page starts: the page is mounted and the bound on the
\* store calls is not reached
PageMounted ==
    /\ ~renderThrows
    /\ nops < MaxPageCalls

\* the readings of a call whose n reads of the clock fall in one millisecond
AtOnce(n) == [j \in 1 .. n |-> now]

\* text.trim() is '', for the texts typed in the model
blank(text) == text \in {"", " "}

\* formData as typed into the project dialog (Projects.tsx, lines 88-97):
\* the form of ProjectDataInputs, and one with the status 'completed'
FormDataInputs ==
    ProjectDataInputs
    \cup { [ name |-> "Z", description |-> "", status |-> "completed",
             category |-> "project", startDate |-> 2800, targetEndDate |-> 2900,
             currentProgress |-> 100, owner |-> "owner-2" ] }

\* handleSubmit of the project dialog (Projects.tsx, lines 215-233).
\* editingProject is the position of the project the dialog was opened for,
\* 0 (null) in the dialog of a new project.
handleSubmit(editingProject, formData) ==
    /\ ~blank(formData.name)
    /\ IF editingProject # 0
       THEN updateProject(projects[editingProject].id, formData,
                          AtOnce(Matches(projects[editingProject].id)))
       ELSE addProject(formData, 0, AtOnce(2))

\* handleDelete(project) (Projects.tsx, lines 235-240), confirm() answered
\* with OK; answered with Cancel the handler calls nothing
handleDelete(project) == deleteProject(project.id)

\* progressFormData as typed into the progress dialog (Projects.tsx, lines
\* 100-108 and 1128-1136): a status, a date, the lists with an empty line
ProgressFormInputs ==
    { [ status |-> status, weekDate |-> RefMonday + 21,
        accomplishments |-> <<"did X", "">>, nextSteps |-> <<"">>,
        challenges |-> <<" ">>, progress |-> 60, notes |-> "" ] :
      status \in {"on_track", "completed"} }

\* onSubmit of the progress dialog (Projects.tsx, lines 647-673):
\* addWeeklyUpdate(progressProject.id, {...}) and then
\* updateProject(progressProject.id, {status}), both on the store the
\* handler was called with a moment before.  r is the outcome of
\* Math.random(), reads the readings of the clock by the two calls: by
\* generateId, by new Date() for createdAt and by the callback of each
\* matching project in addWeeklyUpdate (projectStore.ts, lines 257-274),
\* then by the callback of each matching project in updateProject (lines
\* 241-248).
onSubmitProgress(progressProject, progressFormData, r, reads) ==
    LET projectId == progressProject.id
        matches == Cardinality(Matching(projects, projectId))
        filteredAccomplishments ==
            FilterSeq(progressFormData.accomplishments,
                      {k \in DOMAIN progressFormData.accomplishments :
                          ~blank(progressFormData.accomplishments[k])})
        filteredNextSteps ==
            FilterSeq(progressFormData.nextSteps,
                      {k \in DOMAIN progressFormData.nextSteps :
                          ~blank(progressFormData.nextSteps[k])})
        filteredChallenges ==
            FilterSeq(progressFormData.challenges,
                      {k \in DOMAIN progressFormData.challenges :
                          ~blank(progressFormData.challenges[k])})
        updateData ==
            [ weekDate |-> progressFormData.weekDate,
              accomplishments |-> filteredAccomplishments,
              nextSteps |-> IF Len(filteredNextSteps) > 0
                            THEN ArrayValue(filteredNextSteps) ELSE Undefined,
              challenges |-> filteredChallenges,
              progress |-> progressFormData.progress,
              estimatedCompletion |-> progressProject.targetEndDate,
              supportNeeded |-> "",
              notes |-> progressFormData.notes ]
        updates == [status |-> progressFormData.status]
        newUpdate ==
            Spread(updateData,
                   [id |-> generateId(reads[1], r), createdAt |-> reads[2]])
        added ==
            [i \in DOMAIN projects |->
                LET p == projects[i]
                IN IF p.id = projectId
                   THEN Spread(p,
                            [ weeklyUpdates |-> Append(p.weeklyUpdates, newUpdate),
                              currentProgress |-> updateData.progress,
                              updatedAt |->
                                  reads[2 + MatchesUpTo(projects, projectId, i)] ])
                   ELSE p]
        updated ==
            [i \in DOMAIN added |->
                LET p == added[i]
                IN IF p.id = projectId
                   THEN Spread(Spread(p, updates),
                            [updatedAt |->
                                 reads[2 + matches + MatchesUpTo(added, projectId, i)]])
                   ELSE p]
    IN /\ IsClockReads(reads, 2 + 2 * matches)
       /\ nops' = nops + 2
       /\ lastOp' = [ op |-> "onSubmitProgress", projectId |-> projectId,
                      updateData |-> updateData, updates |-> updates, at |-> now ]
       /\ before' = [projects |-> projects, currentWeek |-> currentWeek]
       /\ presentation' = presentation
       /\ calledWhileOpen' = (calledWhileOpen \/ presentation.isOpen)
       /\ projects' = updated
       /\ lastWrite' =
              [i \in DOMAIN lastWrite |->
                  IF projects[i].id = projectId THEN newUpdate.id ELSE lastWrite[i]]
       /\ now' = ClockAfter(reads)
       /\ UNCHANGED currentWeek

\* the state of the Projects page as it is mounted (lines 82-85), with the
\* setting showCompletedProjects on or off
MountedPageStates ==
    { [ showCompletedProjects |-> show, searchQuery |-> "", statusFilter |-> "all",
        sortBy |-> "name", sortOrder |-> "asc" ] : show \in BOOLEAN }

\* project.weeklyUpdates.find((u) => u.weekDate === currentWeek) of the
\* Reports page (Reports.tsx, line 78): a position, 0 if there is none
weekUpdate(project) ==
    Find({k \in DOMAIN project.weeklyUpdates :
             project.weeklyUpdates[k].weekDate = currentWeek})

\* updateForm as typed into the update dialog (Reports.tsx, lines 65-72)
UpdateFormInputs ==
    { [ accomplishments |-> "did X", progress |-> 40, estimatedCompletion |-> 2900,
        challenges |-> "", supportNeeded |-> "", notes |-> "" ] }

\* handleSubmitUpdate of the update dialog (Reports.tsx, lines 234-261).
\* selectedProject is the position of the project the dialog was opened
\* for.  editingUpdate (useState<WeeklyUpdate | null>, line 62) is the set
\* of the update it holds, empty for null: openEditUpdateModal sets it,
\* resetUpdateForm clears it after a submit, and neither closing the dialog
\* nor openAddUpdateModal does, so it need not be an update of the selected
\* project.
handleSubmitUpdate(selectedProject, editingUpdate, updateForm) ==
    LET project == projects[selectedProject]
        withWeek == Spread(updateForm, [weekDate |-> currentWeek])
    IN /\ ~blank(updateForm.accomplishments)
       /\ IF editingUpdate # {}
          THEN updateWeeklyUpdate(project.id, (CHOOSE u \in editingUpdate : TRUE).id,
                                  withWeek, AtOnce(Matches(project.id)))
          ELSE addWeeklyUpdate(project.id, withWeek, 0, AtOnce(2 + Matches(project.id)))

\* the values of editingUpdate the dialog for the project at position
\* selectedProject is submitted with.  A project with an update of the
\* selected week has the Edit button (line 621), which sets editingUpdate to
\* that update.  A project without one has the Add Update button (line 765):
\* editingUpdate is null in a dialog opened first or after a submit, and
\* the update of another project whose Edit dialog was closed before.
EditingUpdates(selectedProject) ==
    LET edited(i) == {projects[i].weeklyUpdates[weekUpdate(projects[i])]}
    IN IF weekUpdate(projects[selectedProject]) # 0
       THEN {edited(selectedProject)}
       ELSE {{}} \cup {edited(i) : i \in {i \in DOMAIN projects :
                                             weekUpdate(projects[i]) # 0}}

\* handleDeleteUpdate(projectId, updateId) (Reports.tsx, lines 262-267),
\* confirm() answered with OK
handleDeleteUpdate(projectId, updateId) ==
    deleteWeeklyUpdate(projectId, updateId, AtOnce(Matches(projectId)))

PresentationInit ==
    \E n \in 0 .. MaxSlideProjects, first \in DOMAIN ProjectShapes :
        /\ projects = Collection(n, first)
        /\ currentWeek = RefMonday
        /\ now = Clock0
        /\ lastOp = [op |-> "init"]
        /\ nops = 0
        /\ before = [projects |-> Collection(n, first), currentWeek |-> RefMonday]
        /\ lastWrite = [i \in 1 .. n |-> ""]
        /\ presentation = Mounted
        /\ calledWhileOpen = FALSE

PresentationNext ==
    \/ openPresentation
    \/ closePresentation
    \/ resetSlideWhenClosing
    \/ nextSlide
    \/ prevSlide
    \/ goToFirst
    \/ goToLast
    \/ \E index \in 0 .. (totalSlides - 1) : goToDot(index)
    \/ \E index \in presentation.timers : timerFires(index)
    \/ /\ PageMounted
       /\ \E formData \in FormDataInputs : handleSubmit(0, formData)
    \/ /\ PageMounted
       /\ \E editingProject \in DOMAIN projects, formData \in FormDataInputs :
              handleSubmit(editingProject, formData)
    \/ /\ PageMounted
       /\ \E i \in DOMAIN projects : handleDelete(projects[i])
    \/ /\ PageMounted
       /\ \E i \in DOMAIN projects, progressFormData \in ProgressFormInputs :
              onSubmitProgress(projects[i], progressFormData, 0,
                               AtOnce(2 + 2 * Matches(projects[i].id)))
    \/ /\ PageMounted
       /\ \E i \in DOMAIN projects : toggleProjectInPresentation(projects[i].id)
    \/ /\ PageMounted
       /\ \E s \in MountedPageStates :
              \E active \in SortableIds(s), over \in SortableIds(s) :
                  handleDragEnd(s, active, over)
    \/ /\ PageMounted
       /\ \E selectedProject \in DOMAIN projects, updateForm \in UpdateFormInputs :
              \E editingUpdate \in EditingUpdates(selectedProject) :
                  handleSubmitUpdate(selectedProject, editingUpdate, updateForm)
    \/ /\ PageMounted
       /\ \E i \in DOMAIN projects :
              /\ weekUpdate(projects[i]) # 0
              /\ handleDeleteUpdate(projects[i].id,
                                    projects[i].weeklyUpdates[weekUpdate(projects[i])].id)
    \/ /\ PageMounted
       /\ \E week \in {RefMonday - 7} : setCurrentWeek(week)

PresentationSpec == PresentationInit /\ [][PresentationNext]_vars

----------------------------------------------------------------------------
(* C15 .. C20: the derived views *)

\* the updates of p dated d
DatedOn(p, d) == {k \in DOMAIN p.weeklyUpdates : p.weeklyUpdates[k].weekDate = d}

\* the updates of p dated d or earlier
DatedUpTo(p, d) == {k \in DOMAIN p.weeklyUpdates : p.weeklyUpdates[k].weekDate <= d}

\* the latest of the updates of p dated d or earlier
ClosestPrior(p, d) ==
    {k \in DatedUpTo(p, d) :
        \A m \in DatedUpTo(p, d) :
            p.weeklyUpdates[m].weekDate <= p.weeklyUpdates[k].weekDate}

\* C15: for every selected date s, Monday or not, the progress-by-project
\* value of every charted project is the progress of an update dated s if
\* the project has one, and otherwise the progress of its latest update
\* dated s or earlier (closest-prior).
C15_ClosestPrior ==
    Op("progressChartData") =>
        \A j \in DOMAIN lastOp.result :
            LET p == projects[j]
                s == currentWeek
                from == IF DatedOn(p, s) # {} THEN DatedOn(p, s) ELSE ClosestPrior(p, s)
            IN from # {} =>
                   \E k \in from : lastOp.result[j].progress = p.weeklyUpdates[k].progress

\* the project a row of a progress view is about
RowProject(row) == CHOOSE i \in DOMAIN projects : projects[i].name = row.fullName

\* C16: the progress-by-project views never fall back to currentProgress: a
\* project without an update dated on or before the selected date is
\* reported with progress 0.
C16_NoLiveFallback ==
    lastOp.op \in {"progressChartData", "activeProjectsList", "pagesProgressChartData"} =>
        \A j \in DOMAIN lastOp.result :
            LET p == projects[RowProject(lastOp.result[j])]
            IN DatedUpTo(p, currentWeek) = {} => lastOp.result[j].progress = 0

\* the number of periods of a trend window
Periods(range) ==
    IF range = "week" THEN 1
    ELSE IF range = "month" THEN 4
    ELSE IF range = "quarter" THEN 13
    ELSE IF range = "2quarters" THEN 26
    ELSE 52

\* the updates of p dated within the seven days from bucketStart
InBucket(p, bucketStart) ==
    {k \in DOMAIN p.weeklyUpdates :
        /\ bucketStart <= p.weeklyUpdates[k].weekDate
        /\ p.weeklyUpdates[k].weekDate <= bucketStart + 6}

\* C17: the trend series of a window of N periods has exactly N rows, oldest
\* first, one per week, the last being the week (Monday to Sunday) that
\* contains the selected date; every row has a value for each of the first
\* 8 projects: the progress of an update of the project dated within the
\* row's bucket (bucketStart <= weekDate <= bucketStart + 6), or null when
\* the project has no update in the bucket.
C17_TrendSeries ==
    Op("progressTrendData") =>
        LET rows == lastOp.result
            N == Periods(lastOp.range)
        IN /\ Len(rows) = N
           /\ \A r \in 1 .. (N - 1) : rows[r + 1].week = rows[r].week + 7
           /\ rows[N].week % 7 = 0
           /\ rows[N].week <= currentWeek /\ currentWeek <= rows[N].week + 6
           /\ \A r \in 1 .. N :
                  /\ DOMAIN rows[r].project = 0 .. (Min(8, Len(projects)) - 1)
                  /\ \A index \in DOMAIN rows[r].project :
                         LET p == projects[index + 1]
                             hits == InBucket(p, rows[r].week)
                         IN IF hits = {}
                            THEN rows[r].project[index] = Null
                            ELSE \E k \in hits :
                                     rows[r].project[index] = Number(p.weeklyUpdates[k].progress)

\* the Monday of the week (Monday to Sunday) of a calendar date
MondayOf(d) == d - (d % 7)

\* C18 (Scenario E): for a trend window of 4 periods ending at the week W of
\* the selected date and a charted project whose only update is dated in
\* week W-1, the series of that project, oldest first, is
\* [null, value, null, null].
C18_ScenarioE ==
    (Op("progressTrendData") /\ lastOp.range = "month") =>
        \A index \in DOMAIN lastOp.result[1].project :
            LET us == projects[index + 1].weeklyUpdates
                W == MondayOf(currentWeek)
            IN (Len(us) = 1 /\ W - 7 <= us[1].weekDate /\ us[1].weekDate <= W - 1) =>
                   [r \in 1 .. 4 |-> lastOp.result[r].project[index]]
                       = <<Null, Number(us[1].progress), Null, Null>>

\* the count a summary reports under a field, 0 if it reports none
Reported(stats, field) == IF Has(stats, field) THEN stats[field] ELSE 0

\* C19: the summary stats report total = the number of projects and one
\* count for each of the five status values, each the number of projects
\* with that status, so that the reported counts sum to total.
C19_StatusCountsSumToTotal ==
    lastOp.op \in {"summaryStats", "presentationSummaryStats"} =>
        LET stats == lastOp.result
        IN /\ stats.total = Len(projects)
           /\ Reported(stats, "onTrack") + Reported(stats, "atRisk")
                  + Reported(stats, "delayed") + Reported(stats, "completed")
                  + Reported(stats, "onHold") = stats.total

RECURSIVE ProgressOfFirst(_, _)
\* the sum of currentProgress over the first n projects
ProgressOfFirst(ps, n) ==
    IF n = 0 THEN 0 ELSE ProgressOfFirst(ps, n - 1) + ps[n].currentProgress

\* avg is the quotient sum / n rounded to the nearest integer, halves up
RoundedMean(avg, sum, n) == 2 * n * avg <= 2 * sum + n /\ 2 * sum + n < 2 * n * (avg + 1)

\* C20: avgProgress of the summary is the mean of currentProgress over all
\* projects rounded half-up to an integer, 0 for an empty collection, and
\* lies between the least and the greatest currentProgress; the Reports page
\* and the presentation summary compute the same value for a collection.
C20_AvgProgress ==
    /\ lastOp.op \in {"summaryStats", "presentationSummaryStats"} =>
           LET avg == lastOp.result.avgProgress
               n == Len(projects)
           IN IF n = 0 THEN avg = 0
              ELSE /\ RoundedMean(avg, ProgressOfFirst(projects, n), n)
                   /\ \E i \in DOMAIN projects : projects[i].currentProgress <= avg
                   /\ \E i \in DOMAIN projects : avg <= projects[i].currentProgress
    /\ summaryStats(projects).avgProgress = presentationSummaryStats(projects).avgProgress

\* C20 witness: the presentation summary of several projects whose mean
\* progress is halfway between two integers was rounded up.
C20_Witness ==
    /\ Op("presentationSummaryStats")
    /\ Len(projects) >= 2
    /\ (2 * ProgressOfFirst(projects, Len(projects))) % (2 * Len(projects)) = Len(projects)
    /\ lastOp.result.avgProgress * Len(projects) > ProgressOfFirst(projects, Len(projects))

----------------------------------------------------------------------------
(* C21 .. C30 *)

\* the projects whose owner, none read as 'Unassigned', is `owner`
OwnedBy(ps, owner) ==
    {i \in DOMAIN ps : (IF ps[i].owner = "" THEN "Unassigned" ELSE ps[i].owner) = owner}

\* the projects that have the owner of the i-th project
GroupOf(ps, i) == OwnedBy(ps, IF ps[i].owner = "" THEN "Unassigned" ELSE ps[i].owner)

\* the positions at which a project's owner appears for the first time
FirstAppearances(ps) == {i \in DOMAIN ps : \A m \in GroupOf(ps, i) : i <= m}

\* C21: the owner distribution has one group per owner, an empty owner
\* counted under 'Unassigned', with the number of projects of that owner;
\* the groups are in the order in which the owners first appear in the
\* collection, and only the first 8 groups in that order are returned.
C21_OwnerDistribution ==
    Op("ownerChartData") =>
        LET first == FirstAppearances(projects)
            groups == lastOp.result
        IN /\ Len(groups) = Min(8, Cardinality(first))
           /\ \A g \in DOMAIN groups :
                  LET i == Nth(first, g)
                  IN /\ i \in OwnedBy(projects, groups[g].fullName)
                     /\ groups[g].value = Cardinality(OwnedBy(projects, groups[g].fullName))

\* the views of the store
Views ==
    { "summaryStats", "presentationSummaryStats", "progressChartData",
      "pagesProgressChartData", "activeProjectsList", "ownerChartData",
      "statusChartData",
      "progressTrendData", "filteredProjects", "slides" }

\* C22: computing a derived view (summary stats, status distribution,
\* progress by project with its closest-prior sort, owner distribution,
\* trend series, latest-update lookup of the slides, filtered and sorted
\* project list) leaves the store's projects, the order of each project's
\* weeklyUpdates, and currentWeek as they were.
C22_ViewsArePure ==
    lastOp.op \in Views =>
        /\ projects = before.projects
        /\ \A i \in DOMAIN projects :
               projects[i].weeklyUpdates = before.projects[i].weeklyUpdates
        /\ currentWeek = before.currentWeek

\* a closest-prior lookup has sorted updates that were not in descending
\* order of date
C22_Witness ==
    /\ Op("progressChartData")
    /\ \E j \in DOMAIN lastOp.result :
           LET u == projects[j].weeklyUpdates
           IN /\ Len(u) >= 2
              /\ u[1].weekDate < u[2].weekDate
              /\ u[2].weekDate < getMondayOfWeek(currentWeek, lastOp.zone)
              /\ lastOp.result[j].progress = u[2].progress

\* the positions of the projects whose presentation flag is true or absent
Flagged(ps) ==
    {i \in DOMAIN ps :
        IF "isActiveInPresentation" \in DOMAIN ps[i]
        THEN ps[i].isActiveInPresentation ELSE TRUE}

\* C23: a project is in the slideshow exactly when its presentation flag
\* is true (absent counts as true), whatever its status: the deck is the
\* three leading slides, one project slide per flagged project in the
\* order of the collection, and the final thank-you slide.
C23_SlideshowMembership ==
    Op("slides") =>
        LET deck == lastOp.result
            flagged == Flagged(projects)
        IN /\ Len(deck) = Cardinality(flagged) + 4
           /\ deck[1].type = "title"
           /\ deck[2].type = "summary"
           /\ deck[3].type = "progress-chart"
           /\ deck[Len(deck)].type = "thankyou"
           /\ \A j \in 1 .. Cardinality(flagged) :
                  /\ deck[3 + j].type = "project"
                  /\ deck[3 + j].project = projects[Nth(flagged, j)]

\* C24: for every date d, weekMonday(d) is a Monday, lies 0 to 6 days on
\* or before d (a Sunday maps to the Monday six days earlier), and
\* weekMonday(weekMonday(d)) = weekMonday(d).
C24_WeekMonday ==
    /\ lastOp.op \in {"getMondayOfWeek", "getWeekMonday"} =>
           /\ lastOp.result % 7 = 0
           /\ currentWeek - lastOp.result \in 0 .. 6
           /\ lastOp.again = lastOp.result
    /\ Op("getCurrentWeekMonday") =>
           /\ lastOp.result % 7 = 0
           /\ lastOp.today - lastOp.result \in 0 .. 6

\* a string that is not blank and a string with a line break
NonBlank(str) == \E k \in DOMAIN str : str[k] \notin {" ", "\n"}

HasLineBreak(str) == \E k \in DOMAIN str : str[k] = "\n"

\* C25 as stated: for every list L of non-blank strings,
\* normalizeToArray(normalizeToString(L)) = L.
C25_RoundTrip_AsStated ==
    (Op("normalize") /\ \A k \in DOMAIN lastOp.list : NonBlank(lastOp.list[k])) =>
        lastOp.result = lastOp.list

\* C25: for every list L of non-blank strings none of which contains a
\* line break, normalizeToArray(normalizeToString(L)) = L (same items, same
\* order, spaces around an item kept).
C25_RoundTrip ==
    ( /\ Op("normalize")
      /\ \A k \in DOMAIN lastOp.list :
             NonBlank(lastOp.list[k]) /\ ~HasLineBreak(lastOp.list[k]) ) =>
        lastOp.result = lastOp.list

\* two items, one of them with a space, came back from the string form
C25_Witness ==
    /\ Op("normalize")
    /\ Len(lastOp.list) = 2
    /\ \A k \in DOMAIN lastOp.list :
           NonBlank(lastOp.list[k]) /\ ~HasLineBreak(lastOp.list[k])
    /\ \E k \in DOMAIN lastOp.list : " " \in {lastOp.list[k][c] : c \in DOMAIN lastOp.list[k]}
    /\ Len(lastOp.string) >= 4
    /\ lastOp.result = lastOp.list

\* C26: for every local time of day and every offset of local time from
\* UTC, the ISO date of the current local day is not classified as future
\* by the future-date check, and every ISO date after the current local day
\* is classified as future.
C26_FutureDate ==
    Op("isFutureWeek") =>
        /\ currentWeek = lastOp.today => ~lastOp.result
        /\ currentWeek > lastOp.today => lastOp.result

\* C27: whenever the presentation is closed and the effect of the closing
\* render has run, the current slide is 0, and the presentation opens at
\* the title slide, for every interleaving of navigation requests, firings
\* of the 50 ms timer and close and open events (closing while a slide
\* change is pending included).
C27_ClosedAtTitleSlide ==
    /\ (~presentation.isOpen /\ ~presentation.resetPending) =>
           presentation.currentSlide = 0
    /\ Op("open") => presentation.currentSlide = 0

\* C28: whenever the presentation is open, 0 <= currentSlide < totalSlides
\* (slides[currentSlide] is defined), for every sequence of navigation
\* requests, timer firings, close and open events and writes to the store
\* made while the presentation is closed (a behaviour in which the store
\* was called while the presentation was open is not one of them); a
\* navigation request made while a slide change is pending is ignored.
C28_CurrentSlideInRange ==
    /\ (presentation.isOpen /\ ~calledWhileOpen) =>
           /\ 0 <= presentation.currentSlide
           /\ presentation.currentSlide < totalSlides
    /\ (Op("goToSlide") /\ lastOp.from.isAnimating) => presentation = lastOp.from

\* C29: a drag-and-drop reorder on the Projects page (handleDragEnd
\* calling reorderProjects) only permutes the stored projects: the set of
\* project ids in the store after the drag is the set before it, whatever
\* the search text, the status filter and the show-completed setting
\* during the drag.
C29_DragOnlyPermutes ==
    Op("reorderProjects") => Ids(projects) = Ids(before.projects)

\* the calls that are made for one project
TargetedOps ==
    { "updateProject", "addWeeklyUpdate", "updateWeeklyUpdate",
      "deleteWeeklyUpdate", "toggleProjectInPresentation" }

\* C30: each of updateProject, addWeeklyUpdate, updateWeeklyUpdate,
\* deleteWeeklyUpdate and toggleProjectInPresentation made for project X
\* leaves every other project as it was and at its place, keeps the number
\* of projects, and leaves currentWeek as it was; setCurrentWeek changes
\* currentWeek only and leaves the projects as they were.
C30_Frame ==
    /\ lastOp.op \in TargetedOps =>
           /\ Len(projects) = Len(before.projects)
           /\ \A i \in DOMAIN before.projects :
                  before.projects[i].id # Target => projects[i] = before.projects[i]
           /\ currentWeek = before.currentWeek
    /\ Op("setCurrentWeek") =>
           /\ projects = before.projects
           /\ currentWeek = lastOp.week

\* a call for one project of several has changed that project
C30_Witness ==
    /\ lastOp.op \in TargetedOps
    /\ Len(projects) >= 2
    /\ \E i \in DOMAIN projects :
           before.projects[i].id = Target /\ projects[i] # before.projects[i]
    /\ \E i \in DOMAIN projects : before.projects[i].id # Target

====
